---- MODULE Spec2Model ----
(***************************************************************************)
(* Model of the literature-search pipeline of judepj/skills:               *)
(* paper_utils.py (sanitizer, rate limiter, result cache, validation),     *)
(* topic_classifier.py and the six source adapters.                        *)
(*                                                                         *)
(* Text is modelled as sequences of one-character strings, time as whole   *)
(* seconds of the process's wall clock (time.time() and datetime.now()).   *)
(***************************************************************************)
EXTENDS Integers, Sequences, FiniteSets, TLC

VARIABLES
    now,            \* the wall clock, in seconds
    last_api_call,  \* paper_utils._last_api_call: api name -> time of last call
    store,          \* paper_utils.cache: cache key -> entry
    pc,             \* per thread: position inside rate_limit_request
    t_api,          \* per thread: the api_name argument of the running call
    current_time,   \* per thread: the local current_time of the running call
    wake,           \* per thread: the time at which time.sleep returns
    completions,    \* api name -> times at which calls of rate_limit_request completed
    calls,          \* number of rate_limit_request calls started by threads
    obs,            \* what the last cache or search operation did and returned
    ops,            \* number of cache and search operations performed
    nticks,         \* number of clock advances
    data            \* paper_tracker.PaperTracker.data: papers and statistics

vars == <<now, last_api_call, store, pc, t_api, current_time, wake,
          completions, calls, obs, ops, nticks, data>>

rl_vars == <<pc, t_api, current_time, wake, completions, calls>>

(***************************************************************************)
(* Bounds of the model.                                                    *)
(***************************************************************************)
NThreads == 2
MaxCalls == 3
MaxTime == 6
MaxOps == 2
MaxTicks == 2

(***************************************************************************)
(* Text helpers.                                                           *)
(***************************************************************************)
UpperCase == <<"A","B","C","D","E","F","G","H","I","J","K","L","M",
               "N","O","P","Q","R","S","T","U","V","W","X","Y","Z">>
LowerCase == <<"a","b","c","d","e","f","g","h","i","j","k","l","m",
               "n","o","p","q","r","s","t","u","v","w","x","y","z">>
Digits == {"0","1","2","3","4","5","6","7","8","9"}
Whitespace == {" ", "\t", "\n", "\r", "\f"}

LowerTable ==
    [c \in {UpperCase[i] : i \in 1..26} |-> LowerCase[CHOOSE i \in 1..26 : UpperCase[i] = c]]

LowerChar(c) == IF c \in DOMAIN LowerTable THEN LowerTable[c] ELSE c

\* str.lower()
Lower(s) == [i \in 1..Len(s) |-> LowerChar(s[i])]

RECURSIVE LStrip(_)
LStrip(s) == IF s # <<>> /\ Head(s) \in Whitespace THEN LStrip(Tail(s)) ELSE s

RECURSIVE RStrip(_)
RStrip(s) ==
    IF s # <<>> /\ s[Len(s)] \in Whitespace
    THEN RStrip(SubSeq(s, 1, Len(s) - 1))
    ELSE s

\* str.strip()
Strip(s) == RStrip(LStrip(s))

\* s[:n] for n >= 0
Take(s, n) == SubSeq(s, 1, IF n < Len(s) THEN n ELSE Len(s))

(***************************************************************************)
(* Source names (the api_name of each adapter and the test source).        *)
(***************************************************************************)
PUBMED == <<"p","u","b","m","e","d">>
ARXIV == <<"a","r","x","i","v">>
BIORXIV == <<"b","i","o","r","x","i","v">>
SEMANTIC_SCHOLAR == <<"s","e","m","a","n","t","i","c","_","s","c","h","o","l","a","r">>
NIH_REPORTER == <<"n","i","h","_","r","e","p","o","r","t","e","r">>
NSF_AWARDS == <<"n","s","f","_","a","w","a","r","d","s">>
TEST_API == <<"t","e","s","t","_","a","p","i">>

(***************************************************************************)
(* Optional values: Python's None is <<>>, a present value v is <<v>>.     *)
(***************************************************************************)
Null == <<>>
Some(v) == <<v>>
IsNull(o) == o = <<>>
Val(o) == o[1]

\* dict.get(k, default)
DictGet(d, k, default) == IF k \in DOMAIN d THEN d[k] ELSE default

(***************************************************************************)
(* topic_classifier.py                                                     *)
(***************************************************************************)
EPILEPSY_CLINICAL_KEYWORDS == <<
    <<"e","p","i","l","e","p","s","y">>,
    <<"s","e","i","z","u","r","e">>,
    <<"i","n","t","e","r","i","c","t","a","l">>,
    <<"i","c","t","a","l">>,
    <<"e","p","i","l","e","p","t","i","f","o","r","m">>,
    <<"i","E","E","G">>,
    <<"s","E","E","G">>,
    <<"E","C","o","G">>,
    <<"t","h","a","l","a","m","u","s">>,
    <<"h","i","p","p","o","c","a","m","p","u","s">>,
    <<"d","e","e","p"," ","b","r","a","i","n"," ","s","t","i","m","u","l","a","t","i","o","n">>,
    <<"D","B","S">>,
    <<"R","N","S">>,
    <<"r","e","s","p","o","n","s","i","v","e"," ","n","e","u","r","o","s","t","i","m","u","l","a","t","i","o","n">>,
    <<"a","n","t","i","e","p","i","l","e","p","t","i","c">>,
    <<"a","n","t","i","c","o","n","v","u","l","s","a","n","t">>,
    <<"t","e","m","p","o","r","a","l"," ","l","o","b","e"," ","e","p","i","l","e","p","s","y">>
    >>
METHODS_REVIEWS_KEYWORDS == <<
    <<"r","e","v","i","e","w">>,
    <<"s","y","s","t","e","m","a","t","i","c"," ","r","e","v","i","e","w">>,
    <<"m","e","t","a","-","a","n","a","l","y","s","i","s">>,
    <<"s","u","r","v","e","y">>,
    <<"m","e","t","h","o","d","s">>,
    <<"a","l","g","o","r","i","t","h","m">>,
    <<"f","r","a","m","e","w","o","r","k">>,
    <<"o","p","e","n"," ","s","o","u","r","c","e">>,
    <<"b","e","n","c","h","m","a","r","k">>,
    <<"d","a","t","a","s","e","t">>,
    <<"t","u","t","o","r","i","a","l">>,
    <<"p","e","r","s","p","e","c","t","i","v","e">>
    >>
FOUNDATIONAL_KEYWORDS == <<
    <<"f","o","u","n","d","a","t","i","o","n"," ","m","o","d","e","l">>,
    <<"p","r","e","t","r","a","i","n">>,
    <<"s","e","l","f","-","s","u","p","e","r","v","i","s","e","d">>,
    <<"t","r","a","n","s","f","e","r"," ","l","e","a","r","n","i","n","g">>,
    <<"l","a","r","g","e"," ","l","a","n","g","u","a","g","e"," ","m","o","d","e","l">>,
    <<"t","r","a","n","s","f","o","r","m","e","r">>,
    <<"B","E","R","T">>,
    <<"G","P","T">>,
    <<"g","e","n","e","r","a","t","i","v","e"," ","m","o","d","e","l">>
    >>

TOPIC_ORDER == <<"epilepsy_clinical", "methods_reviews", "foundational">>

TopicKeywords(topic) ==
    CASE topic = "epilepsy_clinical" -> EPILEPSY_CLINICAL_KEYWORDS
      [] topic = "methods_reviews" -> METHODS_REVIEWS_KEYWORDS
      [] topic = "foundational" -> FOUNDATIONAL_KEYWORDS
      [] OTHER -> <<>>

TTL_EPILEPSY_CLINICAL == 168
TTL_METHODS_REVIEWS == 720
TTL_FOUNDATIONAL == 720
TTL_GENERAL == 24

TopicTTL(topic) ==
    CASE topic = "epilepsy_clinical" -> TTL_EPILEPSY_CLINICAL
      [] topic = "methods_reviews" -> TTL_METHODS_REVIEWS
      [] topic = "foundational" -> TTL_FOUNDATIONAL
      [] OTHER -> TTL_GENERAL

\* str.count(sub): non-overlapping occurrences, scanning from the left
RECURSIVE CountFrom(_, _, _)
CountFrom(text, sub, i) ==
    IF i + Len(sub) - 1 > Len(text) THEN 0
    ELSE IF SubSeq(text, i, i + Len(sub) - 1) = sub
         THEN 1 + CountFrom(text, sub, i + Len(sub))
         ELSE CountFrom(text, sub, i + 1)

Count(text, sub) == CountFrom(text, sub, 1)

RECURSIVE SumCounts(_, _, _)
SumCounts(text, kws, i) ==
    IF i > Len(kws) THEN 0
    ELSE Count(text, Lower(kws[i])) + SumCounts(text, kws, i + 1)

\* line 86: score = sum(text.count(kw.lower()) for kw in keywords)
TopicScore(text, topic) == SumCounts(text, TopicKeywords(topic), 1)

\* among topics tied for the highest score, takes the one declared last
classify_last_wins(title, abstract) ==
    LET text == Lower(title \o <<" ">> \o abstract)
        best == CHOOSE i \in 1..Len(TOPIC_ORDER) :
                    /\ \A j \in 1..Len(TOPIC_ORDER) :
                           TopicScore(text, TOPIC_ORDER[j]) <= TopicScore(text, TOPIC_ORDER[i])
                    /\ \A j \in (i + 1)..Len(TOPIC_ORDER) :
                           TopicScore(text, TOPIC_ORDER[j]) < TopicScore(text, TOPIC_ORDER[i])
    IN  IF \A j \in 1..Len(TOPIC_ORDER) : TopicScore(text, TOPIC_ORDER[j]) = 0
        THEN "general"
        ELSE TOPIC_ORDER[best]

\* lines 76-100: TopicClassifier.classify, the topic name
classify(title, abstract) ==
    LET text == Lower(title \o <<" ">> \o abstract)
        best == CHOOSE i \in 1..Len(TOPIC_ORDER) :
                    /\ \A j \in 1..Len(TOPIC_ORDER) :
                           TopicScore(text, TOPIC_ORDER[j]) <= TopicScore(text, TOPIC_ORDER[i])
                    /\ \A j \in 1..(i - 1) :
                           TopicScore(text, TOPIC_ORDER[j]) < TopicScore(text, TOPIC_ORDER[i])
    IN  IF \A j \in 1..Len(TOPIC_ORDER) : TopicScore(text, TOPIC_ORDER[j]) = 0
        THEN "general"
        ELSE TOPIC_ORDER[best]

\* lines 96-100: the ttl_hours classify returns
classify_ttl(title, abstract) == TopicTTL(classify(title, abstract))

(***************************************************************************)
(* paper_utils: the result cache                                           *)
(***************************************************************************)
CACHE_EXPIRE_SECONDS == 86400
CACHE_MAX_AGE_HOURS == 24

Hours(h) == h * 60 * 60

\* a key made of the query alone, the source left out
get_cache_key_nosource(query, source) == Strip(Lower(query))

\* lines 186-187: the key is the SHA-256 digest of this text; the digest is
\* taken to be injective, so the text stands for the key
get_cache_key(query, source) == Strip(Lower(query)) \o <<":">> \o source

\* diskcache Cache.add(key, value, expire=...): stores only when the key
\* holds no live entry
cache_add(st, key, value, expire, t) ==
    IF key \in DOMAIN st /\ st[key].expire_time > t THEN st
    ELSE [k \in DOMAIN st \cup {key} |->
            IF k = key THEN [value |-> value, expire_time |-> t + expire] ELSE st[k]]

\* diskcache Cache.set(key, value, expire=...): the entry with its expiry time
cache_set(st, key, value, expire, t) ==
    [k \in DOMAIN st \cup {key} |->
        IF k = key THEN [value |-> value, expire_time |-> t + expire] ELSE st[k]]

\* diskcache Cache.get(key): the value, or None once the expiry time is reached
cache_get(st, key, t) ==
    IF key \in DOMAIN st /\ st[key].expire_time > t THEN Some(st[key].value) ELSE Null

\* diskcache Cache.delete(key)
cache_delete(st, key) == [k \in DOMAIN st \ {key} |-> st[k]]

\* cache_results keyed by the raw query text, without lower() and strip()
cache_results_rawkey(st, query, results, source, t) ==
    LET cache_key == query \o <<":">> \o source
        cache_entry == [results |-> results, timestamp |-> t,
                        source |-> source, query_hash |-> cache_key]
    IN  [k \in DOMAIN st \cup {cache_key} |->
            IF k = cache_key
            THEN [value |-> cache_entry, expire_time |-> t + CACHE_EXPIRE_SECONDS]
            ELSE st[k]]

\* lines 199-208: cache_results, the new content of the cache
cache_results(st, query, results, source, t) ==
    LET cache_key == get_cache_key(query, source)
        cache_entry == [results |-> results, timestamp |-> t,
                        source |-> source, query_hash |-> cache_key]
    IN  cache_set(st, cache_key, cache_entry, CACHE_EXPIRE_SECONDS, t)

\* get_cached_results without any expiry: whatever is stored is returned
get_cached_results_noexpiry(st, query, source, t) ==
    LET cache_key == Strip(Lower(query)) \o <<":">> \o source IN
    IF cache_key \in DOMAIN st
    THEN [ret |-> Some(st[cache_key].value.results), store |-> st]
    ELSE [ret |-> Null, store |-> st]

\* a stored value that diskcache cannot load: cache.get raises on it
UNREADABLE == [unreadable |-> TRUE]

\* lines 226-228 raise on this entry: cache.get cannot load it, or it has
\* no 'timestamp' for datetime.fromisoformat; lines 237-238 catch the
\* exception, log it and leave the cache as it is
ReadFails(cache_entry) ==
    "unreadable" \in DOMAIN cache_entry \/ "timestamp" \notin DOMAIN cache_entry

\* lines 225-239: the lookup under a computed key: what get_cached_results
\* returns (Null for None) and the content of the cache afterwards
lookup_entry(st, cache_key, t) ==
    LET cache_entry == cache_get(st, cache_key, t) IN
    IF ~IsNull(cache_entry)
    THEN IF ReadFails(Val(cache_entry))
         THEN [ret |-> Null, store |-> st]
         ELSE LET age == t - Val(cache_entry).timestamp IN
              IF age < Hours(CACHE_MAX_AGE_HOURS)
              THEN [ret |-> Some(Val(cache_entry).results), store |-> st]
              ELSE [ret |-> Null, store |-> cache_delete(st, cache_key)]
    ELSE [ret |-> Null, store |-> st]

\* lines 212-239: get_cached_results
get_cached_results(st, query, source, t) ==
    lookup_entry(st, get_cache_key(query, source), t)

(***************************************************************************)
(* paper_utils.rate_limit_request                                          *)
(***************************************************************************)
RATE_LIMIT_SECONDS == 2

Threads == 1..NThreads
RLApis == {TEST_API, PUBMED}

\* sleeps for the time already elapsed instead of the time remaining
sleep_time_elapsed(last, api_name, cur) ==
    IF api_name \in DOMAIN last /\ cur - last[api_name] < RATE_LIMIT_SECONDS
    THEN cur - last[api_name]
    ELSE 0

\* lines 164-167: the time to sleep, 0 when the call proceeds at once
sleep_time(last, api_name, cur) ==
    IF api_name \in DOMAIN last /\ cur - last[api_name] < RATE_LIMIT_SECONDS
    THEN RATE_LIMIT_SECONDS - (cur - last[api_name])
    ELSE 0

\* line 171: _last_api_call[api_name] = time.time()
record_call(last, api_name, t) ==
    [a \in DOMAIN last \cup {api_name} |-> IF a = api_name THEN t ELSE last[a]]

\* line 162: current_time = time.time()
RLBegin(t, a) ==
    /\ pc[t] = "idle"
    /\ calls < MaxCalls
    /\ pc' = [pc EXCEPT ![t] = "check"]
    /\ t_api' = [t_api EXCEPT ![t] = a]
    /\ current_time' = [current_time EXCEPT ![t] = now]
    /\ calls' = calls + 1
    /\ UNCHANGED <<data, now, last_api_call, store, wake, completions, obs, ops, nticks>>

\* lines 164-169: read _last_api_call and start sleeping when the gap is short
RLCheck(t) ==
    /\ pc[t] = "check"
    /\ LET st == sleep_time(last_api_call, t_api[t], current_time[t]) IN
         IF st > 0
         THEN /\ pc' = [pc EXCEPT ![t] = "sleep"]
              /\ wake' = [wake EXCEPT ![t] = now + st]
         ELSE /\ pc' = [pc EXCEPT ![t] = "record"]
              /\ UNCHANGED wake
    /\ UNCHANGED <<data, now, last_api_call, store, t_api, current_time, completions,
                   calls, obs, ops, nticks>>

\* line 169: time.sleep returns once the requested time has passed
RLWake(t) ==
    /\ pc[t] = "sleep"
    /\ now >= wake[t]
    /\ pc' = [pc EXCEPT ![t] = "record"]
    /\ UNCHANGED <<data, now, last_api_call, store, t_api, current_time, wake,
                   completions, calls, obs, ops, nticks, data>>

\* lines 171-172: write the timestamp and return
RLRecord(t) ==
    /\ pc[t] = "record"
    /\ last_api_call' = record_call(last_api_call, t_api[t], now)
    /\ completions' = [completions EXCEPT ![t_api[t]] = Append(@, now)]
    /\ pc' = [pc EXCEPT ![t] = "idle"]
    /\ UNCHANGED <<data, now, store, t_api, current_time, wake, calls, obs, ops, nticks>>

\* the wall clock advances while threads run or sleep
RLTick ==
    /\ now < MaxTime
    /\ now' = now + 1
    /\ UNCHANGED <<data, last_api_call, store, pc, t_api, current_time, wake,
                   completions, calls, obs, ops, nticks, data>>

\* sequential use: a call starts only when no other call is in progress
SeqBegin(t, a) ==
    /\ \A u \in Threads : pc[u] = "idle"
    /\ RLBegin(t, a)

\* paper_tracker.py lines 55-66: _create_empty_data; last_updated is the time
\* of creation
create_empty_data(t) ==
    [papers |-> <<>>,
     statistics |-> [total_searched |-> 0, pdfs_requested |-> 0,
                     pdfs_reviewed |-> 0, papers_filed |-> 0],
     last_updated |-> t]

Init ==
    /\ now = 0
    /\ last_api_call = <<>>
    /\ store = <<>>
    /\ pc = [t \in Threads |-> "idle"]
    /\ t_api = [t \in Threads |-> TEST_API]
    /\ current_time = [t \in Threads |-> 0]
    /\ wake = [t \in Threads |-> 0]
    /\ completions = [a \in RLApis |-> <<>>]
    /\ calls = 0
    /\ obs = [op |-> "none"]
    /\ ops = 0
    /\ nticks = 0
    /\ data = create_empty_data(0)

SeqNext ==
    \/ \E t \in Threads, a \in RLApis : SeqBegin(t, a)
    \/ \E t \in Threads : RLCheck(t)
    \/ \E t \in Threads : RLWake(t)
    \/ \E t \in Threads : RLRecord(t)
    \/ RLTick

ConcNext ==
    \/ \E t \in Threads, a \in RLApis : RLBegin(t, a)
    \/ \E t \in Threads : RLCheck(t)
    \/ \E t \in Threads : RLWake(t)
    \/ \E t \in Threads : RLRecord(t)
    \/ RLTick

\* rate_limit_request called back-to-back by one caller at a time
SpecSeq == Init /\ [][SeqNext]_vars

\* rate_limit_request called by concurrent threads
SpecConc == Init /\ [][ConcNext]_vars

(***************************************************************************)
(* The cache used directly: cache_results and get_cached_results called    *)
(* with queries, sources and result lists, while the clock advances.       *)
(***************************************************************************)
Q_DBS == <<"d","b","s">>
Q_DBS_VARIANT == <<" ","D","b","s">>
Q_EEG == <<"e","e","g">>
CacheQueries == {Q_DBS, Q_DBS_VARIANT, Q_EEG}
CacheSources == {PUBMED, ARXIV}

\* the records of test_safety_features, lines 471 and 493
TEST_PAPER == [title |-> Some(<<"T","e","s","t">>), authors |-> <<"Author">>, year |-> Some(2023)]
VALID_PAPER == [title |-> Some(<<"V","a","l","i","d">>), authors |-> <<"Author">>, year |-> Some(2023)]
CacheResultLists == {<<>>, <<TEST_PAPER>>, <<VALID_PAPER, TEST_PAPER>>}

TimeSteps == {1, CACHE_EXPIRE_SECONDS - 1, CACHE_EXPIRE_SECONDS}

\* time passes between operations
Advance(d) ==
    /\ nticks < MaxTicks
    /\ now' = now + d
    /\ nticks' = nticks + 1
    /\ UNCHANGED <<data, last_api_call, store, obs, ops>>
    /\ UNCHANGED rl_vars

CachePut(q, R, s) ==
    /\ ops < MaxOps
    /\ store' = cache_results(store, q, R, s, now)
    /\ obs' = [op |-> "put", query |-> q, source |-> s, results |-> R, time |-> now]
    /\ ops' = ops + 1
    /\ UNCHANGED <<data, now, last_api_call, nticks>>
    /\ UNCHANGED rl_vars

CacheGet(q, s) ==
    /\ ops < MaxOps
    /\ LET r == get_cached_results(store, q, s, now) IN
         /\ store' = r.store
         /\ obs' = [op |-> "get", query |-> q, source |-> s, ret |-> r.ret, time |-> now]
    /\ ops' = ops + 1
    /\ UNCHANGED <<data, now, last_api_call, nticks>>
    /\ UNCHANGED rl_vars

CacheNext ==
    \/ \E q \in CacheQueries, R \in CacheResultLists, s \in CacheSources : CachePut(q, R, s)
    \/ \E q \in CacheQueries, s \in CacheSources : CacheGet(q, s)
    \/ \E d \in TimeSteps : Advance(d)

SpecCache == Init /\ [][CacheNext]_vars

\* what a lookup of (q, s) would return in the current state
Lookup(q, s) == get_cached_results(store, q, s, now).ret

\* the entry the cache holds for (q, s), expired or not
HasEntry(q, s) == get_cache_key(q, s) \in DOMAIN store
EntryOf(q, s) == store[get_cache_key(q, s)].value
AgeOf(q, s) == now - EntryOf(q, s).timestamp

(***************************************************************************)
(* C1: in sequential use, consecutive completions of rate_limit_request    *)
(* for the same source are at least RATE_LIMIT_SECONDS apart.              *)
(***************************************************************************)
C1_SequentialGap ==
    \A a \in RLApis : \A i \in 1..(Len(completions[a]) - 1) :
        completions[a][i + 1] - completions[a][i] >= RATE_LIMIT_SECONDS

\* a second call arrived one second after the first and slept for the rest
C1_Witness ==
    \E a \in RLApis :
        /\ Len(completions[a]) >= 2
        /\ completions[a][2] - completions[a][1] = RATE_LIMIT_SECONDS
        /\ \E t \in Threads : wake[t] = completions[a][2] /\ current_time[t] > completions[a][1]

(***************************************************************************)
(* C2: with concurrent callers of one source, no two calls complete less   *)
(* than RATE_LIMIT_SECONDS apart, whatever the interleaving.               *)
(***************************************************************************)
C2_ConcurrentGap ==
    \A a \in RLApis : \A i, j \in 1..Len(completions[a]) :
        i < j => completions[a][j] - completions[a][i] >= RATE_LIMIT_SECONDS

(***************************************************************************)
(* C6: the TTL of an entry follows the topic of its query: an entry for a  *)
(* query classified epilepsy_clinical is returned at every age below 168   *)
(* hours, one classified methods_reviews or foundational below 720 hours,  *)
(* and one classified general only below 24 hours.                         *)
(***************************************************************************)
C6_TopicTTL ==
    \A q \in CacheQueries, s \in CacheSources :
        HasEntry(q, s) =>
            /\ AgeOf(q, s) < Hours(classify_ttl(q, <<>>))
                   => Lookup(q, s) = Some(EntryOf(q, s).results)
            /\ (classify(q, <<>>) = "general" /\ AgeOf(q, s) >= Hours(TTL_GENERAL))
                   => IsNull(Lookup(q, s))

(***************************************************************************)
(* C7: cache_results(q, R, s) followed by get_cached_results(q, s), with   *)
(* no other cache operation between them and before the entry expires,     *)
(* returns exactly R.                                                      *)
(***************************************************************************)
C7_RoundTrip ==
    [][ ( /\ obs.op = "put"
          /\ obs'.op = "get"
          /\ ops' = ops + 1
          /\ obs'.query = obs.query
          /\ obs'.source = obs.source
          /\ now' - obs.time < Hours(CACHE_MAX_AGE_HOURS) )
        => obs'.ret = Some(obs.results) ]_vars

\* a two-record list stored under a query with capitals and padding came back
C7_Witness ==
    /\ obs.op = "get"
    /\ obs.query = Q_DBS_VARIANT
    /\ obs.ret = Some(<<VALID_PAPER, TEST_PAPER>>)
    /\ obs.time > EntryOf(obs.query, obs.source).timestamp

Ok(v) == [exc |-> FALSE, val |-> v]
Raise == [exc |-> TRUE]

\* the truth value of an Optional[int]: None and 0 are false
Truthy(o) == ~IsNull(o) /\ Val(o) # 0

\* d[k] = v on a dict
SetKey(d, k, v) == [x \in DOMAIN d \cup {k} |-> IF x = k THEN v ELSE d[x]]

\* sub in text
Contains(text, sub) ==
    \E i \in 1..(Len(text) - Len(sub) + 1) : SubSeq(text, i, i + Len(sub) - 1) = sub

\* [kw.lower() for kw in kws]
LowerAll(kws) == [i \in 1..Len(kws) |-> Lower(kws[i])]

\* any(kw in text for kw in kws)
ContainsAny(text, kws) == \E i \in 1..Len(kws) : Contains(text, kws[i])

RECURSIVE SplitFrom(_, _)
SplitFrom(s, cur) ==
    IF s = <<>> THEN (IF cur = <<>> THEN <<>> ELSE <<cur>>)
    ELSE IF Head(s) \in Whitespace
         THEN (IF cur = <<>> THEN <<>> ELSE <<cur>>) \o SplitFrom(Tail(s), <<>>)
         ELSE SplitFrom(Tail(s), Append(cur, Head(s)))

\* str.split()
Split(s) == SplitFrom(s, <<>>)

RECURSIVE SplitOnFrom(_, _, _)
SplitOnFrom(s, sep, cur) ==
    IF s = <<>> THEN <<cur>>
    ELSE IF Head(s) = sep
         THEN <<cur>> \o SplitOnFrom(Tail(s), sep, <<>>)
         ELSE SplitOnFrom(Tail(s), sep, Append(cur, Head(s)))

\* str.split(sep) for a one-character separator
SplitOn(s, sep) == SplitOnFrom(s, sep, <<>>)

DigitChars == <<"0","1","2","3","4","5","6","7","8","9">>
DigitValue(c) == (CHOOSE i \in 1..10 : DigitChars[i] = c) - 1
IsDigits(s) == s # <<>> /\ \A i \in 1..Len(s) : s[i] \in Digits

RECURSIVE DigitsValue(_)
DigitsValue(s) ==
    IF s = <<>> THEN 0
    ELSE DigitsValue(SubSeq(s, 1, Len(s) - 1)) * 10 + DigitValue(s[Len(s)])

\* int(s) of a str: the number, or ValueError (signs and underscores are
\* not modelled: no input of the model has them)
int(s) == IF IsDigits(Strip(s)) THEN Ok(DigitsValue(Strip(s))) ELSE Raise

\* str(n) for n >= 0
RECURSIVE Str(_)
Str(n) == IF n < 10 THEN <<DigitChars[n + 1]>>
          ELSE Str(n \div 10) \o <<DigitChars[(n % 10) + 1]>>

\* str(b) of a bool
StrBool(b) == IF b THEN <<"T","r","u","e">> ELSE <<"F","a","l","s","e">>

\* datetime.now().year: the clock starts in EPOCH_YEAR
EPOCH_YEAR == 2025
SECONDS_PER_YEAR == 365 * 86400
current_year(t) == EPOCH_YEAR + (t \div SECONDS_PER_YEAR)

(***************************************************************************)
(* paper_utils.sanitize_query                                              *)
(***************************************************************************)
MAX_QUERY_LENGTH == 200

\* line 126: the character class of safe_pattern
SafeChars ==
    {UpperCase[i] : i \in 1..26} \cup {LowerCase[i] : i \in 1..26} \cup Digits
    \cup Whitespace \cup {"-", ",", ".", "'", "\"", "(", ")", ":", "?", "!", "[", "]"}

\* line 127: re.match(safe_pattern, query); the query is stripped, so '$'
\* matches at its very end only
MatchesSafePattern(q) == q # <<>> /\ \A i \in 1..Len(q) : q[i] \in SafeChars

SQL_KEYWORDS == <<<<"d","r","o","p">>, <<"d","e","l","e","t","e">>, <<"i","n","s","e","r","t">>, <<"u","p","d","a","t","e">>, <<"s","e","l","e","c","t">>>>

\* line 133: ;\s*(DROP|DELETE|INSERT|UPDATE|SELECT), ignoring case
MatchesSqlInjection(q) ==
    \E i \in 1..Len(q) : \E j \in (i + 1)..Len(q) : \E n \in 1..Len(SQL_KEYWORDS) :
        /\ q[i] = ";"
        /\ \A k \in (i + 1)..(j - 1) : q[k] \in Whitespace
        /\ j + Len(SQL_KEYWORDS[n]) - 1 <= Len(q)
        /\ SubSeq(Lower(q), j, j + Len(SQL_KEYWORDS[n]) - 1) = SQL_KEYWORDS[n]

\* lines 132-144: re.search of each dangerous pattern, ignoring case (the
\* backtick of the last pattern is not a character of the model's texts)
MatchesDangerousPattern(q) ==
    \/ MatchesSqlInjection(q)
    \/ Contains(q, <<"&","&">>) \/ Contains(q, <<"|","|">>)
    \/ Contains(Lower(q), <<"<","s","c","r","i","p","t">>)
    \/ Contains(Lower(q), <<"j","a","v","a","s","c","r","i","p","t",":">>)
    \/ Contains(q, <<"$","(">>)

\* checks the length of the query before strip() instead of after
sanitize_query_length_first(query) ==
    IF query = <<>> \/ Len(query) > MAX_QUERY_LENGTH THEN Null
    ELSE LET q == Strip(query) IN
         IF ~MatchesSafePattern(q) THEN Null
         ELSE IF MatchesDangerousPattern(q) THEN Null
         ELSE Some(q)

\* lines 98-147: sanitize_query: the clean query, Null for None
sanitize_query(query) ==
    IF query = <<>> THEN Null
    ELSE LET q == Strip(query) IN
         IF Len(q) > MAX_QUERY_LENGTH THEN Null
         ELSE IF ~MatchesSafePattern(q) THEN Null
         ELSE IF MatchesDangerousPattern(q) THEN Null
         ELSE Some(q)

(***************************************************************************)
(* paper_utils.validate_paper_data                                         *)
(***************************************************************************)
MAX_TITLE_LENGTH == 500
MIN_YEAR == 1900

REQUIRED_FIELDS == {"title", "authors", "year"}

\* lines 387-419: validate_paper_data: True, False, or the TypeError of
\* len(None) when the title is null
validate_paper_data(paper, t) ==
    IF ~(REQUIRED_FIELDS \subseteq DOMAIN paper) THEN Ok(FALSE)
    ELSE IF IsNull(paper.title) THEN Raise
    ELSE IF Len(Val(paper.title)) > MAX_TITLE_LENGTH THEN Ok(FALSE)
    ELSE IF Truthy(paper.year)
            /\ ~(MIN_YEAR <= Val(paper.year) /\ Val(paper.year) <= current_year(t) + 1)
         THEN Ok(FALSE)
         ELSE Ok(TRUE)

(***************************************************************************)
(* What a search does, step by step.  A search runs to completion as one   *)
(* action; its effects are threaded through a context                      *)
(*   [store, last, now, events]                                            *)
(* where events lists, in order, the cache reads and writes, the calls of  *)
(* rate_limit_request and the remote requests of the search.               *)
(***************************************************************************)
Context(st, last, t) == [store |-> st, last |-> last, now |-> t, events |-> <<>>]

\* rate_limit_request(api_name) by the only running caller: sleep for the
\* remaining gap, then record the time
RateLimited(ctx, api_name) ==
    LET done == ctx.now + sleep_time(ctx.last, api_name, ctx.now) IN
    [ctx EXCEPT !.last = record_call(ctx.last, api_name, done),
                !.now = done,
                !.events = Append(ctx.events,
                    [ev |-> "rate_limit_request", api |-> api_name, at |-> done])]

\* one remote request, the time it was sent at and the response the remote
\* side gave
Requested(ctx, api_name, endpoint, params, response) ==
    [ctx EXCEPT !.events = Append(ctx.events,
        [ev |-> "request", api |-> api_name, endpoint |-> endpoint,
         params |-> params, response |-> response, at |-> ctx.now])]

\* get_cached_results(cache_key, api_name) inside a search
CacheRead(ctx, cache_key, api_name) ==
    LET r == get_cached_results(ctx.store, cache_key, api_name, ctx.now) IN
    [ctx |-> [ctx EXCEPT !.store = r.store,
                         !.events = Append(ctx.events,
                             [ev |-> "get_cached_results", key |-> get_cache_key(cache_key, api_name)])],
     cached |-> r.ret]

\* cache_results(cache_key, papers, api_name) inside a search
CacheWritten(ctx, cache_key, papers, api_name) ==
    [ctx EXCEPT !.store = cache_results(ctx.store, cache_key, papers, api_name, ctx.now),
                !.events = Append(ctx.events,
                    [ev |-> "cache_results", key |-> get_cache_key(cache_key, api_name)])]

\* 'if cached:' and 'if papers:': neither None nor empty
NonEmpty(o) == ~IsNull(o) /\ Val(o) # <<>>

(***************************************************************************)
(* Remote responses.  A request times out, fails in transport, answers     *)
(* with a status other than 200, answers 200 with a body that cannot be    *)
(* decoded, or answers 200 with a decoded body.                            *)
(***************************************************************************)
TIMEOUT == [kind |-> "timeout"]
TRANSPORT_ERROR == [kind |-> "error"]
HttpStatus(code) == [kind |-> "status", code |-> code]
MALFORMED == [kind |-> "malformed"]
Body(b) == [kind |-> "ok", body |-> b]

FailureResponses == {TIMEOUT, TRANSPORT_ERROR, HttpStatus(500), MALFORMED}

IsOk(response) == response.kind = "ok"

\* requests raises on these; response.json() and ET.fromstring raise on a
\* body that cannot be decoded
Raises(response) == response.kind \in {"timeout", "error", "malformed"}

\* sequences over S of length 0..n
RECURSIVE SeqsUpTo(_, _)
SeqsUpTo(S, n) ==
    IF n = 0 THEN {<<>>}
    ELSE LET shorter == SeqsUpTo(S, n - 1) IN
         shorter \cup {Append(s, x) : s \in {z \in shorter : Len(z) = n - 1}, x \in S}

(***************************************************************************)
(* sorted(papers, key=lambda p: p.get('impact_score', 0), reverse=True):   *)
(* a stable sort, records of equal score keep their order.  Scores are     *)
(* kept as integers, in units small enough for every product of the        *)
(* adapters' factors to be exact.                                          *)
(***************************************************************************)
ScoreOf(p) == DictGet(p, "impact_score", 0)

RECURSIVE InsertByScore(_, _)
InsertByScore(sorted, p) ==
    IF sorted = <<>> THEN <<p>>
    ELSE IF ScoreOf(Head(sorted)) >= ScoreOf(p)
         THEN <<Head(sorted)>> \o InsertByScore(Tail(sorted), p)
         ELSE <<p>> \o sorted

RECURSIVE SortedFrom(_, _)
SortedFrom(papers, acc) ==
    IF papers = <<>> THEN acc
    ELSE SortedFrom(Tail(papers), InsertByScore(acc, Head(papers)))

sorted_by_impact_score(papers) == SortedFrom(papers, <<>>)

\* score * num / 10: one of the adapters' factors 1.1, 1.2, ... 3.0
Times(score, tenths) == (score * tenths) \div 10

\* parsed records: those for which the parser returned a dict, in order
NotNull(o) == ~IsNull(o)
Parsed(raws, Parse(_)) ==
    LET all == [i \in 1..Len(raws) |-> Parse(raws[i])]
        some == SelectSeq(all, NotNull)
    IN  [i \in 1..Len(some) |-> Val(some[i])]

\* 'if validate_paper_data(p): papers.append(p)' over the candidates: the
\* records kept, or the exception of the first validation that raises
RECURSIVE ValidOnes(_, _)
ValidOnes(candidates, t) ==
    IF candidates = <<>> THEN <<>>
    ELSE (IF validate_paper_data(Head(candidates), t).val
          THEN <<Head(candidates)>> ELSE <<>>) \o ValidOnes(Tail(candidates), t)

Validated(candidates, t) ==
    IF \E i \in 1..Len(candidates) : validate_paper_data(candidates[i], t).exc
    THEN Raise
    ELSE Ok(ValidOnes(candidates, t))

\* the largest number of records in one response body
MaxRecords == 2
\* the limits a caller asks for are 1..MaxLimit
MaxLimit == 2
Limits == 1..MaxLimit

Min(a, b) == IF a < b THEN a ELSE b

\* lines 99-103 of pubmed_search.py, the same in every adapter: the query was
\* rejected, the search returns [] at once
search_rejected_after_rate_limit(ctx, api_name) ==
    [ctx |-> RateLimited(ctx, api_name), ret |-> Ok(<<>>)]

search_rejected(ctx, api_name) == [ctx |-> ctx, ret |-> Ok(<<>>)]

\* 'return cached[:limit]' without the slice
hit_result_unsliced(cached, limit) == cached

\* lines 113-115 of pubmed_search.py, the same in every adapter
hit_result(cached, limit) == Take(cached, limit)

\* the caller holds one adapter and starts a search when the last one is over
MaySearch(api_name) ==
    /\ ops < MaxOps
    /\ obs.op = "none" \/ (obs.op = "idle" /\ obs.api = api_name)

\* a search returns (or raises): the caller's view of it and the new state
Returned(api_name, query, limit, use_cache, options, clean, cache_key, out) ==
    /\ obs' = [op |-> "search", api |-> api_name, query |-> query, limit |-> limit,
               use_cache |-> use_cache, options |-> options,
               clean_query |-> clean, cache_key |-> cache_key,
               ret |-> out.ret, events |-> out.ctx.events]
    /\ store' = out.ctx.store
    /\ last_api_call' = out.ctx.last
    /\ now' = out.ctx.now
    /\ ops' = ops + 1
    /\ UNCHANGED <<nticks, data>>
    /\ UNCHANGED rl_vars

(***************************************************************************)
(* pubmed_search.PubMedSearch                                              *)
(***************************************************************************)
RETMAX == 100
SCORE_UNIT == 1000

PRIORITY_JOURNALS ==
    <<<<"E","p","i","l","e","p","s","i","a">>, <<"E","p","i","l","e","p","s","y"," ","R","e","s","e","a","r","c","h">>, <<"E","p","i","l","e","p","s","y"," ","&"," ","B","e","h","a","v","i","o","r">>, <<"B","r","a","i","n">>,
      <<"N","e","u","r","o","l","o","g","y">>, <<"A","n","n","a","l","s"," ","o","f"," ","N","e","u","r","o","l","o","g","y">>, <<"J","o","u","r","n","a","l"," ","o","f"," ","N","e","u","r","o","s","c","i","e","n","c","e">>,
      <<"N","a","t","u","r","e"," ","N","e","u","r","o","s","c","i","e","n","c","e">>, <<"N","e","u","r","o","n">>, <<"C","l","i","n","i","c","a","l"," ","N","e","u","r","o","p","h","y","s","i","o","l","o","g","y">>,
      <<"J","o","u","r","n","a","l"," ","o","f"," ","N","e","u","r","a","l"," ","E","n","g","i","n","e","e","r","i","n","g">>, <<"N","e","u","r","o","I","m","a","g","e">>>>
PRIORITY_JOURNALS_LOWER == LowerAll(PRIORITY_JOURNALS)

\* PubmedArticle elements of an efetch answer: a key is a child element that
\* is present, its value the element's text (Null for no text)
PM_GOOD ==
    [Article |-> TRUE, ArticleTitle |-> Some(<<"d","b","s"," ","t","r","i","a","l">>),
     AuthorList |-> <<[LastName |-> <<"D","o","e">>, ForeName |-> <<"J">>], [ForeName |-> <<"X">>]>>,
     Title |-> Some(<<"B","r","a","i","n">>), Year |-> Some(<<"2","0","2","4">>)]
PM_EMPTY_TITLE == [Article |-> TRUE, ArticleTitle |-> Null, Year |-> Some(<<"2","0","2","4">>)]
PM_MINIMAL == [Article |-> TRUE, MedlineDate |-> Some(<<"1","9","9","8"," ","J","a","n","-","F","e","b">>), pmc |-> Some(<<"P","M","C","1">>)]
PubMedArticles == {PM_GOOD, PM_EMPTY_TITLE, PM_MINIMAL}

\* lines 274-284: the author names
pubmed_author_name(author) ==
    IF "ForeName" \in DOMAIN author
    THEN author.LastName \o <<","," ">> \o author.ForeName
    ELSE author.LastName
HasLastName(author) == "LastName" \in DOMAIN author
pubmed_authors(article) ==
    LET named == SelectSeq(DictGet(article, "AuthorList", <<>>), HasLastName)
    IN  [i \in 1..Len(named) |-> pubmed_author_name(named[i])]

\* lines 301-315: the year, from Year or else from MedlineDate; int() raises
\* on a Year without digits
pubmed_year(article) ==
    IF "Year" \in DOMAIN article
    THEN IF IsNull(article.Year) THEN Raise
         ELSE LET y == int(Val(article.Year)) IN IF y.exc THEN Raise ELSE Ok(Some(y.val))
    ELSE IF "MedlineDate" \in DOMAIN article /\ ~IsNull(article.MedlineDate)
              /\ Val(article.MedlineDate) # <<>>
         THEN LET year_str == Take(Val(article.MedlineDate), 4) IN
              IF IsDigits(year_str) THEN Ok(Some(DigitsValue(year_str))) ELSE Ok(Null)
         ELSE Ok(Null)

\* lines 254-354: _parse_article: the standardized paper, Null for None.
\* Fields that no branch of the adapter reads (doi, abstract, url, pmid) are
\* left out of the record.
pubmed_parse_article(article) ==
    IF "Article" \notin DOMAIN article THEN Null
    ELSE IF pubmed_year(article).exc THEN Null
    ELSE Some([title |-> IF "ArticleTitle" \in DOMAIN article
                         THEN article.ArticleTitle ELSE Some(<<"U","n","k","n","o","w","n"," ","T","i","t","l","e">>),
               authors |-> pubmed_authors(article),
               year |-> pubmed_year(article).val,
               citation_count |-> Some(0),
               journal |-> DictGet(article, "Title", Null),
               is_open_access |-> "pmc" \in DOMAIN article,
               source |-> PUBMED])

EsearchResponses == FailureResponses \cup {Body(<<>>), Body(<<"101", "102">>)}
EfetchResponses ==
    FailureResponses \cup {Body(b) : b \in SeqsUpTo(PubMedArticles, MaxRecords)}

\* the answers PubMed gives during one search: the esearch answer and, when
\* it lists PMIDs, the efetch answer
PubMedExchanges ==
    {<<r>> : r \in {x \in EsearchResponses : ~IsOk(x) \/ x.body = <<>>}}
    \cup {<<r1, r2>> : r1 \in {x \in EsearchResponses : IsOk(x) /\ x.body # <<>>},
                       r2 \in EfetchResponses}

\* lines 164-203: _search_pmids
pubmed_search_pmids(ctx, query, limit, response) ==
    [ctx |-> Requested(ctx, PUBMED, "esearch", [term |-> query, retmax |-> limit], response),
     pmids |-> IF IsOk(response) THEN response.body ELSE <<>>]

\* lines 205-252: _fetch_paper_details for a nonempty list of PMIDs
pubmed_fetch_paper_details(ctx, pmids, response) ==
    LET limited == RateLimited(ctx, PUBMED)
        asked == Requested(limited, PUBMED, "efetch", [id |-> pmids], response)
        valid == Validated(Parsed(response.body, pubmed_parse_article), asked.now)
    IN  [ctx |-> asked,
         papers |-> IF IsOk(response) /\ ~valid.exc THEN valid.val ELSE <<>>]

\* _search_papers going on to the detail fetch whatever the ID search gave
pubmed_search_papers_unguarded(ctx, query, limit, responses) ==
    LET limited == RateLimited(ctx, PUBMED)
        found == pubmed_search_pmids(limited, query, limit, responses[1])
    IN  pubmed_fetch_paper_details(found.ctx, found.pmids, responses[Len(responses)])

\* lines 128-162: _search_papers
pubmed_search_papers(ctx, query, limit, responses) ==
    LET limited == RateLimited(ctx, PUBMED)
        found == pubmed_search_pmids(limited, query, limit, responses[1])
    IN  IF found.pmids = <<>>
        THEN [ctx |-> found.ctx, papers |-> <<>>]
        ELSE pubmed_fetch_paper_details(found.ctx, found.pmids, responses[2])

\* lines 366-390: the score of one paper, in units of 1/SCORE_UNIT
pubmed_score(paper, t) ==
    LET journal == paper.journal
        year == paper.year
        s1 == IF ~IsNull(journal) /\ Val(journal) # <<>>
                 /\ ContainsAny(Lower(Val(journal)), PRIORITY_JOURNALS_LOWER)
              THEN Times(SCORE_UNIT, 20) ELSE SCORE_UNIT
        s2 == IF Truthy(year) /\ Val(year) >= current_year(t) - 2 THEN Times(s1, 15)
              ELSE IF Truthy(year) /\ Val(year) >= current_year(t) - 5 THEN Times(s1, 12)
              ELSE s1
    IN  IF paper.is_open_access THEN Times(s2, 11) ELSE s2

\* lines 356-393: _sort_pubmed_papers
pubmed_sort_papers(papers, t) ==
    sorted_by_impact_score(
        [i \in 1..Len(papers) |-> SetKey(papers[i], "impact_score", pubmed_score(papers[i], t))])

PUBMED_DATE_FILTER == <<" ","A","N","D"," ","(","\"","l","a","s","t"," ","5"," ","y","e","a","r","s","\"","[","P","D","a","t","]",")">>

\* lines 85-126: PubMedSearch.search
PubMedSearch_search(query, limit, use_cache, recent_only) ==
    /\ MaySearch(PUBMED)
    /\ LET ctx0 == Context(store, last_api_call, now)
           options == [recent_only |-> recent_only]
           clean == sanitize_query(query)
       IN
       IF IsNull(clean)
       THEN Returned(PUBMED, query, limit, use_cache, options, clean, Null,
                     search_rejected(ctx0, PUBMED))
       ELSE
       LET clean_query == IF recent_only THEN Val(clean) \o PUBMED_DATE_FILTER ELSE Val(clean)
           cache_key == IF recent_only THEN clean_query \o <<"_","r","e","c","e","n","t">> ELSE clean_query
           read == IF use_cache THEN CacheRead(ctx0, cache_key, PUBMED)
                   ELSE [ctx |-> ctx0, cached |-> Null]
       IN
       IF NonEmpty(read.cached)
       THEN Returned(PUBMED, query, limit, use_cache, options, clean, Some(cache_key),
                     [ctx |-> read.ctx, ret |-> Ok(hit_result(Val(read.cached), limit))])
       ELSE \E responses \in PubMedExchanges :
            LET fetched == pubmed_search_papers(read.ctx, clean_query,
                                                Min(limit * 2, RETMAX), responses)
                papers == fetched.papers
                ctx1 == IF papers # <<>>
                        THEN CacheWritten(fetched.ctx, cache_key, papers, PUBMED)
                        ELSE fetched.ctx
                sorted_papers == pubmed_sort_papers(papers, ctx1.now)
            IN  Returned(PUBMED, query, limit, use_cache, options, clean, Some(cache_key),
                         [ctx |-> ctx1, ret |-> Ok(Take(sorted_papers, limit))])

(***************************************************************************)
(* arxiv_search.ArxivSearch                                                *)
(***************************************************************************)
ARXIV_MAX_RESULTS == 50

ARXIV_RELEVANT_CATEGORIES ==
    {"q-bio.NC", "eess.SP", "cs.LG", "cs.NE", "nlin.CD", "math.DS", "physics.comp-ph",
     "stat.ML", "physics.med-ph", "cs.AI", "math.NA", "physics.bio-ph"}

\* a datetime: its year and the day within the year; isoformat() strings of
\* two datetimes compare as the datetimes do
Date(y, d) == [year |-> y, day |-> d]
Later(a, b) == a.year > b.year \/ (a.year = b.year /\ a.day > b.day)

\* arxiv.Result objects
AX_GOOD ==
    [title |-> <<"d","b","s"," ","m","o","d","e","l">>, authors |-> <<<<"D","o","e">>>>, published |-> Some(Date(2024, 10)),
     updated |-> Some(Date(2024, 20)), categories |-> <<"q-bio.NC">>]
AX_UNDATED ==
    [title |-> <<"v","i","s","i","o","n">>, authors |-> <<>>, published |-> Null,
     updated |-> Null, categories |-> <<"cs.CV">>]
AX_OLD ==
    [title |-> <<"c","h","a","o","s">>, authors |-> <<<<"R","o","e">>>>, published |-> Some(Date(2010, 5)),
     updated |-> Some(Date(2010, 5)), categories |-> <<"cs.CV", "nlin.CD">>]
ArxivResults == {AX_GOOD, AX_UNDATED, AX_OLD}

\* what iterating search.results() does: the library raises on every failure
ArxivResponses == FailureResponses \cup {Body(b) : b \in SeqsUpTo(ArxivResults, MaxRecords)}

\* lines 159-201: _standardize_paper (doi, abstract, urls left out)
arxiv_standardize_paper(result) ==
    [title |-> Some(result.title),
     authors |-> result.authors,
     year |-> IF IsNull(result.published) THEN Null ELSE Some(Val(result.published).year),
     citation_count |-> Some(0),
     journal |-> Some(<<"a","r","X","i","v"," ","p","r","e","p","r","i","n","t">>),
     is_open_access |-> TRUE,
     source |-> ARXIV,
     categories |-> result.categories,
     is_relevant_category |->
         \E i \in 1..Len(result.categories) : result.categories[i] \in ARXIV_RELEVANT_CATEGORIES,
     published_date |-> result.published,
     updated_date |-> result.updated]

\* lines 107-157: _search_papers; the library yields at most max_results results
arxiv_search_papers(ctx, query, limit, filter_categories, response) ==
    LET limited == RateLimited(ctx, ARXIV)
        asked == Requested(limited, ARXIV, "query",
                           [query |-> query, max_results |-> limit,
                            filter_categories |-> filter_categories], response)
        results == Take(response.body, limit)
        valid == Validated([i \in 1..Len(results) |-> arxiv_standardize_paper(results[i])],
                           asked.now)
    IN  [ctx |-> asked,
         papers |-> IF IsOk(response) /\ ~valid.exc THEN valid.val ELSE <<>>]

\* lines 215-242: the score of one paper, in units of 1/SCORE_UNIT
arxiv_score(paper, t) ==
    LET year == paper.year
        s1 == IF paper.is_relevant_category THEN Times(SCORE_UNIT, 20) ELSE SCORE_UNIT
        s2 == IF Truthy(year) /\ Val(year) >= current_year(t) - 1 THEN Times(s1, 20)
              ELSE IF Truthy(year) /\ Val(year) >= current_year(t) - 2 THEN Times(s1, 15)
              ELSE IF Truthy(year) /\ Val(year) >= current_year(t) - 3 THEN Times(s1, 12)
              ELSE s1
    IN  IF ~IsNull(paper.updated_date) /\ ~IsNull(paper.published_date)
           /\ Later(Val(paper.updated_date), Val(paper.published_date))
        THEN Times(s2, 11) ELSE s2

\* lines 203-245: _sort_arxiv_papers
arxiv_sort_papers(papers, t) ==
    sorted_by_impact_score(
        [i \in 1..Len(papers) |-> SetKey(papers[i], "impact_score", arxiv_score(papers[i], t))])

\* lines 68-105: ArxivSearch.search
ArxivSearch_search(query, limit, use_cache, filter_categories) ==
    /\ MaySearch(ARXIV)
    /\ LET ctx0 == Context(store, last_api_call, now)
           options == [filter_categories |-> filter_categories]
           clean == sanitize_query(query)
       IN
       IF IsNull(clean)
       THEN Returned(ARXIV, query, limit, use_cache, options, clean, Null,
                     search_rejected(ctx0, ARXIV))
       ELSE
       LET clean_query == Val(clean)
           cache_key == IF filter_categories THEN clean_query \o <<"_","f","i","l","t","e","r","e","d">> ELSE clean_query
           read == IF use_cache THEN CacheRead(ctx0, cache_key, ARXIV)
                   ELSE [ctx |-> ctx0, cached |-> Null]
       IN
       IF NonEmpty(read.cached)
       THEN Returned(ARXIV, query, limit, use_cache, options, clean, Some(cache_key),
                     [ctx |-> read.ctx, ret |-> Ok(hit_result(Val(read.cached), limit))])
       ELSE \E response \in ArxivResponses :
            LET fetched == arxiv_search_papers(read.ctx, clean_query,
                                               Min(limit * 2, ARXIV_MAX_RESULTS),
                                               filter_categories, response)
                papers == fetched.papers
                ctx1 == IF papers # <<>>
                        THEN CacheWritten(fetched.ctx, cache_key, papers, ARXIV)
                        ELSE fetched.ctx
                sorted_papers == arxiv_sort_papers(papers, ctx1.now)
            IN  Returned(ARXIV, query, limit, use_cache, options, clean, Some(cache_key),
                         [ctx |-> ctx1, ret |-> Ok(Take(sorted_papers, limit))])

(***************************************************************************)
(* paper_utils: journal tiers and the impact score                         *)
(***************************************************************************)
TIER1_JOURNALS ==
    <<<<"N","a","t","u","r","e">>, <<"S","c","i","e","n","c","e">>, <<"N","a","t","u","r","e"," ","N","e","u","r","o","s","c","i","e","n","c","e">>, <<"N","a","t","u","r","e"," ","C","o","m","m","u","n","i","c","a","t","i","o","n","s">>,
      <<"N","a","t","u","r","e"," ","C","o","m","p","u","t","a","t","i","o","n","a","l"," ","S","c","i","e","n","c","e">>, <<"C","e","l","l">>, <<"N","e","u","r","o","n">>, <<"P","N","A","S">>,
      <<"N","a","t","u","r","e"," ","M","e","t","h","o","d","s">>, <<"N","a","t","u","r","e"," ","M","e","d","i","c","i","n","e">>, <<"N","a","t","u","r","e"," ","B","i","o","t","e","c","h","n","o","l","o","g","y">>>>
TIER2_JOURNALS ==
    <<<<"B","r","a","i","n">>, <<"E","p","i","l","e","p","s","i","a">>, <<"N","e","u","r","o","I","m","a","g","e">>, <<"J","o","u","r","n","a","l"," ","o","f"," ","N","e","u","r","o","s","c","i","e","n","c","e">>,
      <<"P","L","O","S"," ","C","o","m","p","u","t","a","t","i","o","n","a","l"," ","B","i","o","l","o","g","y">>, <<"e","L","i","f","e">>, <<"C","u","r","r","e","n","t"," ","B","i","o","l","o","g","y">>,
      <<"A","n","n","a","l","s"," ","o","f"," ","N","e","u","r","o","l","o","g","y">>, <<"N","e","u","r","o","l","o","g","y">>, <<"B","r","a","i","n"," ","S","t","i","m","u","l","a","t","i","o","n">>>>
TIER3_JOURNALS ==
    <<<<"C","l","i","n","i","c","a","l"," ","N","e","u","r","o","p","h","y","s","i","o","l","o","g","y">>, <<"I","E","E","E"," ","T","r","a","n","s","a","c","t","i","o","n","s"," ","o","n"," ","B","i","o","m","e","d","i","c","a","l"," ","E","n","g","i","n","e","e","r","i","n","g">>,
      <<"J","o","u","r","n","a","l"," ","o","f"," ","N","e","u","r","a","l"," ","E","n","g","i","n","e","e","r","i","n","g">>, <<"E","p","i","l","e","p","s","y"," ","R","e","s","e","a","r","c","h">>,
      <<"E","p","i","l","e","p","s","y"," ","&"," ","B","e","h","a","v","i","o","r">>, <<"S","c","i","e","n","t","i","f","i","c"," ","R","e","p","o","r","t","s">>, <<"P","L","O","S"," ","O","N","E">>,
      <<"F","r","o","n","t","i","e","r","s"," ","i","n"," ","N","e","u","r","o","s","c","i","e","n","c","e">>, <<"J","o","u","r","n","a","l"," ","o","f"," ","N","e","u","r","o","s","c","i","e","n","c","e"," ","M","e","t","h","o","d","s">>>>

TIER1_JOURNALS_LOWER == LowerAll(TIER1_JOURNALS)
TIER2_JOURNALS_LOWER == LowerAll(TIER2_JOURNALS)
TIER3_JOURNALS_LOWER == LowerAll(TIER3_JOURNALS)

\* the multipliers 3.0, 2.0, 1.5 and 1.0, in tenths
TIER1_MULTIPLIER == 30
TIER2_MULTIPLIER == 20
TIER3_MULTIPLIER == 15
DEFAULT_MULTIPLIER == 10

\* lines 240-262: get_journal_tier, as the tier's multiplier in tenths
get_journal_tier(journal_name) ==
    IF IsNull(journal_name) \/ Val(journal_name) = <<>> THEN DEFAULT_MULTIPLIER
    ELSE LET journal_lower == Lower(Val(journal_name)) IN
         IF ContainsAny(journal_lower, TIER1_JOURNALS_LOWER) THEN TIER1_MULTIPLIER
         ELSE IF ContainsAny(journal_lower, TIER2_JOURNALS_LOWER) THEN TIER2_MULTIPLIER
         ELSE IF ContainsAny(journal_lower, TIER3_JOURNALS_LOWER) THEN TIER3_MULTIPLIER
         ELSE DEFAULT_MULTIPLIER

\* lines 267-309: calculate_impact_score, in units of 1/100
calculate_impact_score(paper, t) ==
    LET c == DictGet(paper, "citation_count", Some(0))
        citations == IF IsNull(c) THEN 0 ELSE Val(c)
        tier_multiplier == get_journal_tier(DictGet(paper, "journal", Some(<<>>)))
        year == DictGet(paper, "year", Some(0))
        recency_factor ==
            IF Truthy(year) /\ Val(year) > current_year(t) - 3 THEN 12
            ELSE IF Truthy(year) /\ Val(year) > current_year(t) - 5 THEN 11
            ELSE 10
    IN  citations * tier_multiplier * recency_factor

\* lines 325-340: sort_by_impact
sort_by_impact(papers, t) ==
    sorted_by_impact_score(
        [i \in 1..Len(papers) |->
            SetKey(papers[i], "impact_score", calculate_impact_score(papers[i], t))])

(***************************************************************************)
(* semantic_scholar_search.SemanticScholarSearch                           *)
(***************************************************************************)
S2_MAX_RESULTS == 50

\* entries of the 'data' list of a search answer
S2_GOOD ==
    [title |-> Some(<<"d","b","s"," ","o","u","t","c","o","m","e","s">>), authors |-> Some(<<Some([name |-> <<"D","o","e">>]), Null>>),
     year |-> Some(2024), citationCount |-> Some(10), journal |-> Some([name |-> <<"N","a","t","u","r","e">>])]
S2_NULL_TITLE ==
    [title |-> Null, authors |-> Some(<<>>), year |-> Some(2020), citationCount |-> Some(3)]
S2_SPARSE ==
    [year |-> Null, citationCount |-> Null, journal |-> Null, venue |-> Some(<<"E","p","i","l","e","p","s","i","a">>)]
SemanticScholarPapers == {S2_GOOD, S2_NULL_TITLE, S2_SPARSE}

SemanticScholarResponses ==
    FailureResponses \cup {HttpStatus(429)} \cup {Body(b) : b \in SeqsUpTo(SemanticScholarPapers, MaxRecords)}

IsNamedAuthor(author) == ~IsNull(author) /\ "name" \in DOMAIN Val(author)

\* lines 181-229: _standardize_paper; iterating a null author list raises
s2_standardize_paper(paper) ==
    LET author_list == DictGet(paper, "authors", Some(<<>>))
        named == SelectSeq(Val(author_list), IsNamedAuthor)
        journal == DictGet(paper, "journal", Some(<<>>))
        venue == DictGet(paper, "venue", Null)
        journal_name ==
            IF ~IsNull(journal) /\ "name" \in DOMAIN Val(journal) THEN Some(Val(journal).name)
            ELSE IF ~IsNull(venue) /\ Val(venue) # <<>> THEN venue
            ELSE Null
    IN  IF IsNull(author_list) THEN Raise
        ELSE Ok([title |-> DictGet(paper, "title", Some(<<"U","n","k","n","o","w","n"," ","T","i","t","l","e">>)),
                 authors |-> [i \in 1..Len(named) |-> Val(named[i]).name],
                 year |-> DictGet(paper, "year", Null),
                 citation_count |-> DictGet(paper, "citationCount", Some(0)),
                 journal |-> journal_name,
                 is_open_access |-> DictGet(paper, "isOpenAccess", FALSE),
                 source |-> SEMANTIC_SCHOLAR])

\* sends the request a second time when it failed
s2_search_papers_retrying(ctx, query, limit, response) ==
    LET limited == RateLimited(ctx, SEMANTIC_SCHOLAR)
        asked == Requested(limited, SEMANTIC_SCHOLAR, "paper/search",
                           [query |-> query, limit |-> limit], response)
        again == Requested(asked, SEMANTIC_SCHOLAR, "paper/search",
                           [query |-> query, limit |-> limit], response)
        standardized == [i \in 1..Len(response.body) |-> s2_standardize_paper(response.body[i])]
        raised == \E i \in 1..Len(standardized) : standardized[i].exc
        valid == Validated([i \in 1..Len(standardized) |-> standardized[i].val], asked.now)
    IN  IF IsOk(response)
        THEN [ctx |-> asked, papers |-> IF ~raised /\ ~valid.exc THEN valid.val ELSE <<>>]
        ELSE [ctx |-> again, papers |-> <<>>]

\* lines 114-179: _search_papers
s2_search_papers(ctx, query, limit, response) ==
    LET limited == RateLimited(ctx, SEMANTIC_SCHOLAR)
        asked == Requested(limited, SEMANTIC_SCHOLAR, "paper/search",
                           [query |-> query, limit |-> limit], response)
        standardized == [i \in 1..Len(response.body) |-> s2_standardize_paper(response.body[i])]
        raised == \E i \in 1..Len(standardized) : standardized[i].exc
        valid == Validated([i \in 1..Len(standardized) |-> standardized[i].val], asked.now)
    IN  [ctx |-> asked,
         papers |-> IF IsOk(response) /\ ~raised /\ ~valid.exc THEN valid.val ELSE <<>>]

\* lines 77-112: SemanticScholarSearch.search
SemanticScholarSearch_search(query, limit, use_cache) ==
    /\ MaySearch(SEMANTIC_SCHOLAR)
    /\ LET ctx0 == Context(store, last_api_call, now)
           options == [none |-> TRUE]
           clean == sanitize_query(query)
       IN
       IF IsNull(clean)
       THEN Returned(SEMANTIC_SCHOLAR, query, limit, use_cache, options, clean, Null,
                     search_rejected(ctx0, SEMANTIC_SCHOLAR))
       ELSE
       LET clean_query == Val(clean)
           read == IF use_cache THEN CacheRead(ctx0, clean_query, SEMANTIC_SCHOLAR)
                   ELSE [ctx |-> ctx0, cached |-> Null]
       IN
       IF NonEmpty(read.cached)
       THEN Returned(SEMANTIC_SCHOLAR, query, limit, use_cache, options, clean, Some(clean_query),
                     [ctx |-> read.ctx, ret |-> Ok(hit_result(Val(read.cached), limit))])
       ELSE \E response \in SemanticScholarResponses :
            LET fetched == s2_search_papers(read.ctx, clean_query,
                                            Min(limit, S2_MAX_RESULTS), response)
                papers == fetched.papers
                ctx1 == IF papers # <<>>
                        THEN CacheWritten(fetched.ctx, clean_query, papers, SEMANTIC_SCHOLAR)
                        ELSE fetched.ctx
                sorted_papers == sort_by_impact(papers, ctx1.now)
            IN  Returned(SEMANTIC_SCHOLAR, query, limit, use_cache, options, clean, Some(clean_query),
                         [ctx |-> ctx1, ret |-> Ok(Take(sorted_papers, limit))])

(***************************************************************************)
(* biorxiv_search.BiorxivSearch                                            *)
(***************************************************************************)
BIORXIV_MAX_RESULTS == 100

BIORXIV_RELEVANT_CATEGORIES ==
    <<<<"n","e","u","r","o","s","c","i","e","n","c","e">>, <<"b","i","o","p","h","y","s","i","c","s">>, <<"s","y","s","t","e","m","s"," ","b","i","o","l","o","g","y">>, <<"b","i","o","i","n","f","o","r","m","a","t","i","c","s">>,
      <<"c","e","l","l"," ","b","i","o","l","o","g","y">>, <<"g","e","n","e","t","i","c","s">>, <<"p","h","y","s","i","o","l","o","g","y">>, <<"e","p","i","d","e","m","i","o","l","o","g","y">>, <<"n","e","u","r","o","l","o","g","y">>,
      <<"p","s","y","c","h","i","a","t","r","y"," ","a","n","d"," ","c","l","i","n","i","c","a","l"," ","p","s","y","c","h","o","l","o","g","y">>>>

SERVER_BIORXIV == <<"b","i","o","r","x","i","v">>
SERVER_MEDRXIV == <<"m","e","d","r","x","i","v">>
SERVER_BOTH == <<"b","o","t","h">>

\* entries of the 'collection' list of a details answer
BX_GOOD ==
    [title |-> Some(<<"D","B","S"," ","i","n"," ","m","i","c","e">>), abstract |-> Some(<<"s","t","i","m","u","l","a","t","i","o","n">>),
     authors |-> Some(<<"D","o","e",","," ","J",";"," ","R","o","e",","," ","R",";">>), date |-> Some(<<"2","0","2","5","-","0","1","-","1","5">>),
     category |-> Some(<<"N","e","u","r","o","s","c","i","e","n","c","e">>)]
BX_NULL_ABSTRACT == [title |-> Some(<<"d","b","s"," ","c","a","s","e">>), abstract |-> Null]
BX_OFF_TOPIC ==
    [title |-> Some(<<"r","o","o","t","s">>), date |-> Some(<<"2","0","2","5","-","0","2","-","3","0">>), category |-> Some(<<"p","l","a","n","t"," ","b","i","o","l","o","g","y">>)]
BiorxivPapers == {BX_GOOD, BX_NULL_ABSTRACT, BX_OFF_TOPIC}

\* the largest number of entries in one details answer
MaxPreprints == 1

\* a decoded details answer: the status of its first message and its collection
Details(status, collection) == Body([status |-> status, collection |-> collection])
BiorxivResponses ==
    FailureResponses \cup {Details("no posts found", <<>>)}
    \cup {Details("ok", b) : b \in SeqsUpTo(BiorxivPapers, MaxPreprints)}

IsLeapYear(y) == (y % 4 = 0 /\ y % 100 # 0) \/ y % 400 = 0
DaysInMonth(y, m) ==
    IF m = 2 THEN (IF IsLeapYear(y) THEN 29 ELSE 28)
    ELSE IF m \in {4, 6, 9, 11} THEN 30 ELSE 31

\* datetime.strptime(date_str, "%Y-%m-%d").year, Null when strptime raises
strptime_year(date_str) ==
    LET parts == SplitOn(date_str, "-") IN
    IF /\ Len(parts) = 3
       /\ \A i \in 1..3 : IsDigits(parts[i])
       /\ Len(parts[1]) = 4 /\ Len(parts[2]) <= 2 /\ Len(parts[3]) <= 2
       /\ DigitsValue(parts[1]) >= 1
       /\ DigitsValue(parts[2]) \in 1..12
       /\ DigitsValue(parts[3]) \in 1..DaysInMonth(DigitsValue(parts[1]), DigitsValue(parts[2]))
    THEN Some(DigitsValue(parts[1]))
    ELSE Null

NonEmptyText(s) == s # <<>>

\* lines 242-251: at most ten author names, split on ';'
biorxiv_authors(paper_data) ==
    LET author_string == DictGet(paper_data, "authors", Some(<<>>)) IN
    IF IsNull(author_string) \/ Val(author_string) = <<>> THEN <<>>
    ELSE LET author_parts == Take(SplitOn(Val(author_string), ";"), 10)
             stripped == [i \in 1..Len(author_parts) |-> Strip(author_parts[i])]
         IN  SelectSeq(stripped, NonEmptyText)

\* lines 231-281: _standardize_paper (doi, abstract, url, version left out)
biorxiv_standardize_paper(paper_data, server) ==
    LET date_str == DictGet(paper_data, "date", Some(<<>>)) IN
    [title |-> DictGet(paper_data, "title", Some(<<"U","n","k","n","o","w","n"," ","T","i","t","l","e">>)),
     authors |-> biorxiv_authors(paper_data),
     year |-> IF IsNull(date_str) \/ Val(date_str) = <<>> THEN Null
              ELSE strptime_year(Val(date_str)),
     citation_count |-> Some(0),
     journal |-> Some(server \o <<" ","p","r","e","p","r","i","n","t">>),
     is_open_access |-> TRUE,
     source |-> server,
     category |-> DictGet(paper_data, "category", Some(<<>>)),
     published_date |-> date_str,
     server |-> server]

\* lines 196-205: is the entry kept by the query filter; .lower() raises on
\* a null title, abstract or category
biorxiv_has_null_text(paper_data) ==
    \E k \in {"title", "abstract", "category"} :
        k \in DOMAIN paper_data /\ IsNull(paper_data[k])

biorxiv_is_kept(paper_data, query) ==
    LET query_terms == Split(Lower(query))
        title == Lower(Val(DictGet(paper_data, "title", Some(<<>>))))
        abstract == Lower(Val(DictGet(paper_data, "abstract", Some(<<>>))))
        category == Lower(Val(DictGet(paper_data, "category", Some(<<>>))))
        is_relevant == \E i \in 1..Len(query_terms) :
            Contains(title, query_terms[i]) \/ Contains(abstract, query_terms[i])
        is_relevant_category == ContainsAny(category, LowerAll(BIORXIV_RELEVANT_CATEGORIES))
    IN  is_relevant \/ (is_relevant_category /\ Len(query_terms) <= 2)

RECURSIVE biorxiv_filtered(_, _, _, _)
biorxiv_filtered(papers_data, query, server, t) ==
    IF papers_data = <<>> THEN <<>>
    ELSE LET std_paper == biorxiv_standardize_paper(Head(papers_data), server) IN
         (IF biorxiv_is_kept(Head(papers_data), query) /\ validate_paper_data(std_paper, t).val
          THEN <<std_paper>> ELSE <<>>)
         \o biorxiv_filtered(Tail(papers_data), query, server, t)

\* lines 161-229: _get_recent_papers
biorxiv_get_recent_papers(ctx, server, query, limit, response) ==
    LET asked == Requested(ctx, BIORXIV, "details", [server |-> server], response) IN
    [ctx |-> asked,
     papers |->
        IF IsOk(response) /\ response.body.status = "ok"
           /\ ~(\E i \in 1..Len(response.body.collection) :
                    biorxiv_has_null_text(response.body.collection[i]))
        THEN biorxiv_filtered(response.body.collection, query, server, asked.now)
        ELSE <<>>]

\* lines 134-138: the servers to search
servers_to_search(server) ==
    (IF server \in {SERVER_BIORXIV, SERVER_BOTH} THEN <<SERVER_BIORXIV>> ELSE <<>>)
    \o (IF server \in {SERVER_MEDRXIV, SERVER_BOTH} THEN <<SERVER_MEDRXIV>> ELSE <<>>)

\* lines 151-157: the first paper of each title, in order
RECURSIVE unique_papers(_, _)
unique_papers(papers, seen) ==
    IF papers = <<>> THEN <<>>
    ELSE LET title_key == Strip(Lower(Val(Head(papers).title))) IN
         IF title_key \in seen THEN unique_papers(Tail(papers), seen)
         ELSE <<Head(papers)>> \o unique_papers(Tail(papers), seen \cup {title_key})

RECURSIVE biorxiv_servers_searched(_, _, _, _, _, _)
biorxiv_servers_searched(ctx, servers, query, limit, responses, papers) ==
    IF servers = <<>> THEN [ctx |-> ctx, papers |-> papers]
    ELSE LET got == biorxiv_get_recent_papers(ctx, Head(servers), query, limit, Head(responses))
         IN  biorxiv_servers_searched(got.ctx, Tail(servers), query, limit, Tail(responses),
                                      papers \o got.papers)

\* lines 116-159: _search_papers
biorxiv_search_papers(ctx, query, server, limit, responses) ==
    LET limited == RateLimited(ctx, BIORXIV)
        searched == biorxiv_servers_searched(limited, servers_to_search(server), query,
                                             limit, responses, <<>>)
    IN  [ctx |-> searched.ctx, papers |-> unique_papers(searched.papers, {})]

\* lines 294-319: the score of one paper, in units of 1/SCORE_UNIT
biorxiv_score(paper, t) ==
    LET year == paper.year
        category == Lower(Val(DictGet(paper, "category", Some(<<>>))))
        s1 == IF Truthy(year) /\ Val(year) = current_year(t) THEN Times(SCORE_UNIT, 20)
              ELSE IF Truthy(year) /\ Val(year) = current_year(t) - 1 THEN Times(SCORE_UNIT, 15)
              ELSE SCORE_UNIT
        s2 == IF Contains(category, <<"n","e","u","r","o","s","c","i","e","n","c","e">>) THEN Times(s1, 20)
              ELSE IF Contains(category, <<"n","e","u","r","o","l","o","g","y">>) THEN Times(s1, 18)
              ELSE IF Contains(category, <<"b","i","o","p","h","y","s","i","c","s">>) \/ Contains(category, <<"s","y","s","t","e","m","s"," ","b","i","o","l","o","g","y">>)
                   THEN Times(s1, 15)
              ELSE s1
    IN  IF paper.server = SERVER_MEDRXIV THEN Times(s2, 12) ELSE s2

\* lines 283-322: _sort_biorxiv_papers
biorxiv_sort_papers(papers, t) ==
    sorted_by_impact_score(
        [i \in 1..Len(papers) |-> SetKey(papers[i], "impact_score", biorxiv_score(papers[i], t))])

\* lines 77-114: BiorxivSearch.search
BiorxivSearch_search(query, server, limit, use_cache) ==
    /\ MaySearch(BIORXIV)
    /\ LET ctx0 == Context(store, last_api_call, now)
           options == [server |-> server]
           clean == sanitize_query(query)
       IN
       IF IsNull(clean)
       THEN Returned(BIORXIV, query, limit, use_cache, options, clean, Null,
                     search_rejected(ctx0, BIORXIV))
       ELSE
       LET clean_query == Val(clean)
           cache_key == clean_query \o <<"_">> \o server
           read == IF use_cache THEN CacheRead(ctx0, cache_key, BIORXIV)
                   ELSE [ctx |-> ctx0, cached |-> Null]
       IN
       IF NonEmpty(read.cached)
       THEN Returned(BIORXIV, query, limit, use_cache, options, clean, Some(cache_key),
                     [ctx |-> read.ctx, ret |-> Ok(hit_result(Val(read.cached), limit))])
       ELSE \E responses \in [1..Len(servers_to_search(server)) -> BiorxivResponses] :
            LET fetched == biorxiv_search_papers(read.ctx, clean_query, server,
                                                 Min(limit * 2, BIORXIV_MAX_RESULTS), responses)
                papers == fetched.papers
                ctx1 == IF papers # <<>>
                        THEN CacheWritten(fetched.ctx, cache_key, papers, BIORXIV)
                        ELSE fetched.ctx
                sorted_papers == biorxiv_sort_papers(papers, ctx1.now)
            IN  Returned(BIORXIV, query, limit, use_cache, options, clean, Some(cache_key),
                         [ctx |-> ctx1, ret |-> Ok(Take(sorted_papers, limit))])

(***************************************************************************)
(* nih_reporter_search.NIHReporterSearch                                   *)
(***************************************************************************)
NIH_MAX_LIMIT == 500

\* entries of the 'results' list of a projects/search answer
NIH_GOOD ==
    [project_num |-> Some(<<"R","0","1"," ","N","S","1">>), project_title |-> Some(<<"d","b","s"," ","c","i","r","c","u","i","t","s">>),
     contact_pi_name |-> Some(<<"D","O","E",","," ","J">>), project_start_date |-> Some(<<"2","0","2","4","-","0","7","-","0","1","T","0","0",":","0","0",":","0","0","Z">>),
     award_amount |-> Some(500000),
     agency_ic_fundings |-> Some(<<[code |-> <<"N","I","N","D","S">>]>>),
     project_num_split |-> Some([activity_code |-> <<"R","0","1">>])]
NIH_NULL_AMOUNT ==
    [project_num |-> Some(<<"R","2","1"," ","N","S","2">>), project_title |-> Some(<<"d","b","s"," ","p","i","l","o","t">>),
     project_start_date |-> Some(<<"p","e","n","d","i","n","g">>), award_amount |-> Null]
NIH_NULL_NUM == [project_num |-> Null, project_title |-> Some(<<"d","b","s">>), award_amount |-> Some(1000)]
NIHProjects == {NIH_GOOD, NIH_NULL_AMOUNT, NIH_NULL_NUM}

NIHResponses == FailureResponses \cup {Body(b) : b \in SeqsUpTo(NIHProjects, MaxRecords)}

\* lines 236-242: the start year; int() failing gives None
nih_year(start_date) ==
    IF IsNull(start_date) \/ Val(start_date) = <<>> THEN Null
    ELSE LET y == int(Take(Val(start_date), 4)) IN IF y.exc THEN Null ELSE Some(y.val)

HasCode(funding) == DictGet(funding, "code", <<>>) # <<>>

\* lines 212-302: _parse_project: the standardized project, Null for None
\* when an attribute of a null value is used (institution, location, dates,
\* abstract, study section and url are left out of the record)
nih_parse_project(project_data) ==
    LET project_num == DictGet(project_data, "project_num", Some(<<"U","n","k","n","o","w","n">>))
        start_date == DictGet(project_data, "project_start_date", Some(<<>>))
        year == nih_year(start_date)
        ic_fundings == DictGet(project_data, "agency_ic_fundings", Some(<<>>))
        project_split == DictGet(project_data, "project_num_split", Some(<<>>))
        coded == SelectSeq(Val(ic_fundings), HasCode)
    IN  IF IsNull(ic_fundings) \/ IsNull(project_split) \/ IsNull(project_num) THEN Null
        ELSE Some([project_number |-> project_num,
                   title |-> DictGet(project_data, "project_title", Some(<<"U","n","t","i","t","l","e","d"," ","P","r","o","j","e","c","t">>)),
                   pi_name |-> DictGet(project_data, "contact_pi_name", Some(<<"U","n","k","n","o","w","n"," ","P","I">>)),
                   year |-> year,
                   fiscal_year |-> DictGet(project_data, "fiscal_year", year),
                   award_amount |-> DictGet(project_data, "award_amount", Some(0)),
                   agencies |-> [i \in 1..Len(coded) |-> coded[i].code],
                   activity_code |-> DictGet(Val(project_split), "activity_code", <<>>),
                   source |-> NIH_REPORTER])

\* lines 124-210: _search_projects
nih_search_projects(ctx, query, limit, fiscal_years, include_active, response) ==
    LET limited == RateLimited(ctx, NIH_REPORTER)
        asked == Requested(limited, NIH_REPORTER, "projects/search",
                           [search_text |-> query, limit |-> Min(limit, NIH_MAX_LIMIT),
                            fiscal_years |-> fiscal_years,
                            include_active |-> include_active], response)
    IN  [ctx |-> asked,
         papers |-> IF IsOk(response) THEN Parsed(response.body, nih_parse_project) ELSE <<>>]

\* award_amount / 1_000_000 points, in units of 10^-6 points; the amounts
\* of the model are multiples of 1000, which keeps every product exact
FundingScore(award_amount) == award_amount

\* lines 370-400: the score of one project; comparing a null award amount
\* with 0 is a TypeError
nih_score(project, t) ==
    LET award_amount == DictGet(project, "award_amount", Some(0))
        year == project.year
        agencies == project.agencies
        s0 == IF Val(award_amount) > 0 THEN FundingScore(Val(award_amount)) ELSE 0
        s1 == IF Truthy(year) /\ Val(year) >= current_year(t) - 2 THEN Times(s0, 15)
              ELSE IF Truthy(year) /\ Val(year) >= current_year(t) - 5 THEN Times(s0, 12)
              ELSE s0
        s2 == IF DictGet(project, "activity_code", <<>>) \in {<<"R","0","1">>, <<"R","3","7">>, <<"P","0","1">>, <<"P","5","0">>}
              THEN Times(s1, 13) ELSE s1
        has(code) == \E i \in 1..Len(agencies) : agencies[i] = code
    IN  IF IsNull(award_amount) THEN Raise
        ELSE IF has(<<"N","I","N","D","S">>) THEN Ok(Times(s2, 14))
        ELSE IF has(<<"N","I","M","H">>) \/ has(<<"N","C","I">>) \/ has(<<"N","H","L","B","I">>) THEN Ok(Times(s2, 12))
        ELSE Ok(s2)

\* lines 360-403: _sort_projects: the sorted list, or the exception of the
\* first score that raises
nih_sort_projects(projects, t) ==
    LET scores == [i \in 1..Len(projects) |-> nih_score(projects[i], t)] IN
    IF \E i \in 1..Len(projects) : scores[i].exc THEN Raise
    ELSE Ok(sorted_by_impact_score(
            [i \in 1..Len(projects) |-> SetKey(projects[i], "impact_score", scores[i].val)]))

\* str(list(range(a, b + 1))), e.g. "[2021, 2022]"
RECURSIVE StrRange(_, _)
StrRange(a, b) == IF a = b THEN Str(a) ELSE Str(a) \o <<","," ">> \o StrRange(a + 1, b)

\* lines 76-122: NIHReporterSearch.search_projects
NIHReporterSearch_search_projects(query, limit, use_cache, recent_only, include_active) ==
    /\ MaySearch(NIH_REPORTER)
    /\ LET ctx0 == Context(store, last_api_call, now)
           options == [recent_only |-> recent_only, include_active |-> include_active]
           clean == sanitize_query(query)
       IN
       IF IsNull(clean)
       THEN Returned(NIH_REPORTER, query, limit, use_cache, options, clean, Null,
                     search_rejected(ctx0, NIH_REPORTER))
       ELSE
       LET clean_query == Val(clean)
           fiscal_years == IF recent_only
                           THEN Some([i \in 1..5 |-> current_year(now) - 5 + i]) ELSE Null
           cache_key ==
               IF recent_only
               THEN clean_query \o <<"_","f","y","[">> \o StrRange(current_year(now) - 4, current_year(now))
                    \o <<"]","_","a","c","t","i","v","e">> \o StrBool(include_active)
               ELSE clean_query \o <<"_","a","c","t","i","v","e">> \o StrBool(include_active)
           read == IF use_cache THEN CacheRead(ctx0, cache_key, NIH_REPORTER)
                   ELSE [ctx |-> ctx0, cached |-> Null]
       IN
       IF NonEmpty(read.cached)
       THEN Returned(NIH_REPORTER, query, limit, use_cache, options, clean, Some(cache_key),
                     [ctx |-> read.ctx, ret |-> Ok(hit_result(Val(read.cached), limit))])
       ELSE \E response \in NIHResponses :
            LET fetched == nih_search_projects(read.ctx, clean_query,
                                               Min(limit * 2, NIH_MAX_LIMIT), fiscal_years,
                                               include_active, response)
                projects == fetched.papers
                ctx1 == IF projects # <<>>
                        THEN CacheWritten(fetched.ctx, cache_key, projects, NIH_REPORTER)
                        ELSE fetched.ctx
                sorted_projects == nih_sort_projects(projects, ctx1.now)
            IN  Returned(NIH_REPORTER, query, limit, use_cache, options, clean, Some(cache_key),
                         [ctx |-> ctx1,
                          ret |-> IF sorted_projects.exc THEN Raise
                                  ELSE Ok(Take(sorted_projects.val, limit))])

(***************************************************************************)
(* nsf_awards_search.NSFAwardsSearch                                       *)
(***************************************************************************)
NSF_MAX_LIMIT == 25
NSF_MAX_RESULTS == 3000
NSF_FETCH_CAP == 100

KEY_PROGRAMS ==
    <<<<"B","r","a","i","n"," ","R","e","s","e","a","r","c","h"," ","t","h","r","o","u","g","h"," ","A","d","v","a","n","c","i","n","g"," ","I","n","n","o","v","a","t","i","v","e"," ","N","e","u","r","o","t","e","c","h","n","o","l","o","g","i","e","s"," ","(","B","R","A","I","N",")">>,
      <<"C","o","g","n","i","t","i","v","e"," ","N","e","u","r","o","s","c","i","e","n","c","e">>, <<"C","o","l","l","a","b","o","r","a","t","i","v","e"," ","R","e","s","e","a","r","c","h"," ","i","n"," ","C","o","m","p","u","t","a","t","i","o","n","a","l"," ","N","e","u","r","o","s","c","i","e","n","c","e">>,
      <<"C","o","m","p","u","t","a","t","i","o","n","a","l"," ","N","e","u","r","o","s","c","i","e","n","c","e">>, <<"N","e","u","r","a","l"," ","S","y","s","t","e","m","s">>, <<"P","e","r","c","e","p","t","i","o","n",","," ","A","c","t","i","o","n"," ","&"," ","C","o","g","n","i","t","i","o","n">>,
      <<"P","h","y","s","i","c","s"," ","o","f"," ","L","i","v","i","n","g"," ","S","y","s","t","e","m","s">>, <<"M","a","c","h","i","n","e"," ","L","e","a","r","n","i","n","g">>, <<"R","o","b","u","s","t"," ","I","n","t","e","l","l","i","g","e","n","c","e">>,
      <<"C","y","b","e","r","i","n","f","r","a","s","t","r","u","c","t","u","r","e">>>>
KEY_PROGRAMS_LOWER == LowerAll(KEY_PROGRAMS)

\* entries of the 'award' list of an awards answer; an entry that is not a
\* JSON object has the key nondict
NSF_GOOD ==
    [id |-> Some(<<"2","4","0","1">>), title |-> Some(<<"d","b","s"," ","c","o","n","t","r","o","l">>), startDate |-> Some(<<"0","1","/","1","5","/","2","0","2","4">>),
     estimatedTotalAmt |-> Some(<<"5","0","0","0","0","0">>),
     fundProgramName |-> Some(<<"C","o","m","p","u","t","a","t","i","o","n","a","l"," ","N","e","u","r","o","s","c","i","e","n","c","e">>)]
NSF_NULL_PROGRAM ==
    [id |-> Some(<<"2","4","0","2">>), title |-> Some(<<"d","b","s"," ","s","e","n","s","i","n","g">>), estimatedTotalAmt |-> Null,
     fundsObligatedAmt |-> Some(<<"1","0","0","0">>), fundProgramName |-> Null]
NSF_NON_DICT == [nondict |-> TRUE]
NSFAwards == {NSF_GOOD, NSF_NULL_PROGRAM, NSF_NON_DICT}

\* a page with as many awards as one request can return
NSF_PLAIN == [title |-> Some(<<"d","b","s">>)]
NSF_FULL_PAGE == [i \in 1..NSF_MAX_LIMIT |-> NSF_PLAIN]

NSFResponses ==
    FailureResponses \cup {Body(b) : b \in SeqsUpTo(NSFAwards, MaxRecords) \cup {NSF_FULL_PAGE}}

\* the answers NSF gives during one search, one per page requested
NSFExchanges ==
    {<<r>> : r \in NSFResponses} \cup {<<Body(NSF_FULL_PAGE), r>> : r \in NSFResponses}

\* lines 260-266: the start year from MM/DD/YYYY; int() failing gives None
nsf_year(start_date) ==
    IF IsNull(start_date) \/ Val(start_date) = <<>> THEN Null
    ELSE LET parts == SplitOn(Val(start_date), "/")
             y == int(parts[Len(parts)])
         IN  IF y.exc THEN Null ELSE Some(y.val)

\* int(float(x)) of a field: the amount, or the ValueError / TypeError (a
\* fraction or an exponent in the text is not modelled)
nsf_amount(x) == IF IsNull(x) THEN Raise ELSE int(Val(x))

\* lines 268-280: the award amount
nsf_award_amount(award_data) ==
    LET estimated_total == nsf_amount(DictGet(award_data, "estimatedTotalAmt", Some(<<"0">>)))
        funds_obligated == nsf_amount(DictGet(award_data, "fundsObligatedAmt", Some(<<"0">>)))
    IN  IF ~estimated_total.exc THEN estimated_total.val
        ELSE IF ~funds_obligated.exc THEN funds_obligated.val
        ELSE 0

\* lines 221-324: _parse_award: the standardized award, Null for None (PI,
\* institution, location, dates, abstract and url are left out of the record)
nsf_parse_award(award_data) ==
    IF "nondict" \in DOMAIN award_data THEN Null
    ELSE Some([award_number |-> DictGet(award_data, "id", Some(<<"U","n","k","n","o","w","n">>)),
               title |-> DictGet(award_data, "title", Some(<<"U","n","t","i","t","l","e","d"," ","A","w","a","r","d">>)),
               pi_name |-> DictGet(award_data, "pdPIName", Some(<<"U","n","k","n","o","w","n"," ","P","I">>)),
               year |-> nsf_year(DictGet(award_data, "startDate", Some(<<>>))),
               award_amount |-> Some(nsf_award_amount(award_data)),
               program |-> DictGet(award_data, "fundProgramName", Some(<<>>)),
               source |-> <<"n","s","f">>])

\* one pass of the while loop without the test offset <= MAX_RESULTS
nsf_page_uncapped(loop, query, limit, start_date, responses) ==
    IF loop.ended THEN loop
    ELSE IF ~(Len(loop.papers) < limit) THEN [loop EXCEPT !.ended = TRUE]
    ELSE IF loop.used >= Len(responses) THEN [loop EXCEPT !.ended = TRUE, !.starved = TRUE]
    ELSE
    LET response == responses[loop.used + 1]
        limited == RateLimited(loop.ctx, NSF_AWARDS)
        asked == Requested(limited, NSF_AWARDS, "awards",
                           [keyword |-> query, rpp |-> Min(NSF_MAX_LIMIT, limit - Len(loop.papers)),
                            offset |-> loop.offset, startDateStart |-> start_date], response)
        stop(found) == [loop EXCEPT !.ctx = asked, !.papers = found, !.used = loop.used + 1,
                                    !.ended = TRUE]
    IN  IF ~IsOk(response) \/ response.body = <<>> THEN stop(loop.papers)
        ELSE LET more == loop.papers \o Parsed(response.body, nsf_parse_award) IN
             IF Len(response.body) < NSF_MAX_LIMIT THEN stop(more)
             ELSE [loop EXCEPT !.ctx = asked, !.papers = more, !.used = loop.used + 1,
                               !.offset = loop.offset + NSF_MAX_LIMIT]

\* lines 155-210 of _search_awards: one pass of the while loop, the test of
\* the loop included; used counts the pages requested, ended is set when the
\* loop is left, starved when the loop asks for a page beyond the answers
\* at hand
nsf_page(loop, query, limit, start_date, responses) ==
    IF loop.ended THEN loop
    ELSE IF ~(Len(loop.papers) < limit /\ loop.offset <= NSF_MAX_RESULTS)
    THEN [loop EXCEPT !.ended = TRUE]
    ELSE IF loop.used >= Len(responses) THEN [loop EXCEPT !.ended = TRUE, !.starved = TRUE]
    ELSE
    LET response == responses[loop.used + 1]
        limited == RateLimited(loop.ctx, NSF_AWARDS)
        asked == Requested(limited, NSF_AWARDS, "awards",
                           [keyword |-> query, rpp |-> Min(NSF_MAX_LIMIT, limit - Len(loop.papers)),
                            offset |-> loop.offset, startDateStart |-> start_date], response)
        stop(found) == [loop EXCEPT !.ctx = asked, !.papers = found, !.used = loop.used + 1,
                                    !.ended = TRUE]
    IN  IF ~IsOk(response) \/ response.body = <<>> THEN stop(loop.papers)
        ELSE LET more == loop.papers \o Parsed(response.body, nsf_parse_award) IN
             IF Len(response.body) < NSF_MAX_LIMIT THEN stop(more)
             ELSE [loop EXCEPT !.ctx = asked, !.papers = more, !.used = loop.used + 1,
                               !.offset = loop.offset + NSF_MAX_LIMIT]

\* n passes of the while loop, one after the other: the first half of them,
\* then from the state they leave the rest
RECURSIVE nsf_pages(_, _, _, _, _, _)
nsf_pages(loop, n, query, limit, start_date, responses) ==
    IF n = 0 THEN loop
    ELSE IF n = 1 THEN nsf_page(loop, query, limit, start_date, responses)
    ELSE CHOOSE end \in
             {IF half.ended THEN half
              ELSE nsf_pages(half, n - (n \div 2), query, limit, start_date, responses) :
                  half \in {nsf_pages(loop, n \div 2, query, limit, start_date, responses)}} : TRUE

\* lines 137-219: _search_awards: the while loop from the given offset on,
\* run until it is left or the answers at hand are used up; the state the
\* loop ends in, with the context, the awards and the pages used
nsf_search_pages(ctx, query, limit, start_date, responses, awards, offset) ==
    CHOOSE end \in
        {nsf_pages(begin, Len(responses) + 1, query, limit, start_date, responses) :
            begin \in {[ctx |-> ctx, papers |-> awards, offset |-> offset, used |-> 0,
                        ended |-> FALSE, starved |-> FALSE]}} : TRUE

nsf_search_awards(ctx, query, limit, start_date, responses) ==
    nsf_search_pages(ctx, query, limit, start_date, responses, <<>>, 1)

\* lines 336-361: the score of one award; .lower() of a null program name
\* is an AttributeError
nsf_score(award, t) ==
    LET award_amount == Val(DictGet(award, "award_amount", Some(0)))
        year == award.year
        program == DictGet(award, "program", Some(<<>>))
        s0 == IF award_amount > 0 THEN FundingScore(award_amount) ELSE 0
        s1 == IF Truthy(year) /\ Val(year) >= current_year(t) - 2 THEN Times(s0, 15)
              ELSE IF Truthy(year) /\ Val(year) >= current_year(t) - 5 THEN Times(s0, 12)
              ELSE s0
    IN  IF IsNull(program) THEN Raise
        ELSE IF ContainsAny(Lower(Val(program)), KEY_PROGRAMS_LOWER) THEN Ok(Times(s1, 13))
        ELSE Ok(s1)

\* lines 326-364: _sort_awards
nsf_sort_awards(awards, t) ==
    LET scores == [i \in 1..Len(awards) |-> nsf_score(awards[i], t)] IN
    IF \E i \in 1..Len(awards) : scores[i].exc THEN Raise
    ELSE Ok(sorted_by_impact_score(
            [i \in 1..Len(awards) |-> SetKey(awards[i], "impact_score", scores[i].val)]))

HasFunding(min_funding, award) == Val(DictGet(award, "award_amount", Some(0))) >= min_funding

RECURSIVE nsf_funded(_, _)
nsf_funded(awards, min_funding) ==
    IF awards = <<>> THEN <<>>
    ELSE (IF HasFunding(min_funding, Head(awards)) THEN <<Head(awards)>> ELSE <<>>)
         \o nsf_funded(Tail(awards), min_funding)

\* a small limit, and the smallest limit for which a full first page is
\* followed by a request for a second page
NSFLimits == {1, (NSF_MAX_LIMIT \div 2) + 1}

\* lines 86-135: NSFAwardsSearch.search_awards
NSFAwardsSearch_search_awards(query, limit, use_cache, recent_only, min_funding) ==
    /\ MaySearch(NSF_AWARDS)
    /\ LET ctx0 == Context(store, last_api_call, now)
           options == [recent_only |-> recent_only, min_funding |-> min_funding]
           clean == sanitize_query(query)
       IN
       IF IsNull(clean)
       THEN Returned(NSF_AWARDS, query, limit, use_cache, options, clean, Null,
                     search_rejected(ctx0, NSF_AWARDS))
       ELSE
       LET clean_query == Val(clean)
           start_date == IF recent_only
                         THEN Some(<<"0","1","/","0","1","/">> \o Str(current_year(now) - 4)) ELSE Null
           cache_key == clean_query \o <<"_","r","e","c","e","n","t">> \o StrBool(recent_only) \o <<"_","m","i","n","f","u","n","d">>
                        \o (IF IsNull(min_funding) THEN <<"N","o","n","e">> ELSE Str(Val(min_funding)))
           read == IF use_cache THEN CacheRead(ctx0, cache_key, NSF_AWARDS)
                   ELSE [ctx |-> ctx0, cached |-> Null]
       IN
       IF NonEmpty(read.cached)
       THEN Returned(NSF_AWARDS, query, limit, use_cache, options, clean, Some(cache_key),
                     [ctx |-> read.ctx, ret |-> Ok(hit_result(Val(read.cached), limit))])
       ELSE \E responses \in NSFExchanges :
            LET fetched == nsf_search_awards(read.ctx, clean_query,
                                             Min(limit * 2, NSF_FETCH_CAP), start_date, responses)
                awards == IF Truthy(min_funding) /\ fetched.papers # <<>>
                          THEN nsf_funded(fetched.papers, Val(min_funding))
                          ELSE fetched.papers
                ctx1 == IF awards # <<>>
                        THEN CacheWritten(fetched.ctx, cache_key, awards, NSF_AWARDS)
                        ELSE fetched.ctx
                sorted_awards == nsf_sort_awards(awards, ctx1.now)
            IN  /\ ~fetched.starved
                /\ fetched.used = Len(responses)
                /\ Returned(NSF_AWARDS, query, limit, use_cache, options, clean, Some(cache_key),
                            [ctx |-> ctx1,
                             ret |-> IF sorted_awards.exc THEN Raise
                                     ELSE Ok(Take(sorted_awards.val, limit))])

(***************************************************************************)
(* The adapters at work: searches by one caller at a time, with time       *)
(* passing between them.                                                   *)
(***************************************************************************)
Q_EMPTY == <<>>
Q_UNSAFE == <<"d","b","s",";"," ","d","r","o","p"," ","t","a","b","l","e">>
Q_JAVASCRIPT == <<"j","a","v","a","s","c","r","i","p","t",":","d","b","s">>
Q_TOO_LONG == [i \in 1..(MAX_QUERY_LENGTH + 1) |-> "a"]
SearchQueries == {Q_DBS, Q_DBS_VARIANT, Q_EMPTY, Q_UNSAFE, Q_JAVASCRIPT, Q_TOO_LONG}

Servers == {SERVER_BIORXIV, SERVER_BOTH}
MinFundings == {Null, Some(2000)}

\* the caller has taken the result of the search
Idle ==
    /\ obs.op = "search"
    /\ obs' = [op |-> "idle", api |-> obs.api]
    /\ UNCHANGED <<data, now, last_api_call, store, ops, nticks>>
    /\ UNCHANGED rl_vars

\* a day passes between two searches
Wait ==
    /\ obs.op = "idle"
    /\ Advance(CACHE_EXPIRE_SECONDS)

Next ==
    \/ \E q \in SearchQueries, l \in Limits, c \in BOOLEAN, r \in BOOLEAN :
           PubMedSearch_search(q, l, c, r)
    \/ \E q \in SearchQueries, l \in Limits, c \in BOOLEAN, f \in BOOLEAN :
           ArxivSearch_search(q, l, c, f)
    \/ \E q \in SearchQueries, s \in Servers, l \in Limits, c \in BOOLEAN :
           BiorxivSearch_search(q, s, l, c)
    \/ \E q \in SearchQueries, l \in Limits, c \in BOOLEAN :
           SemanticScholarSearch_search(q, l, c)
    \/ \E q \in SearchQueries, l \in Limits, c \in BOOLEAN, r \in BOOLEAN :
           NIHReporterSearch_search_projects(q, l, c, r, FALSE)
    \/ \E q \in SearchQueries, l \in NSFLimits, c \in BOOLEAN, m \in MinFundings :
           NSFAwardsSearch_search_awards(q, l, c, FALSE, m)
    \/ Idle
    \/ Wait

Spec == Init /\ [][Next]_vars

(***************************************************************************)
(* What the claims speak of.                                               *)
(***************************************************************************)
\* the step is one whole search
SearchStep == obs.op # "search" /\ obs'.op = "search"

\* the events of one kind in a search's event list
EventsOf(events, kinds) == {i \in 1..Len(events) : events[i].ev \in kinds}

\* a remote request that timed out, failed in transport or was answered
\* with a status other than 200
FailedRequests(events) ==
    {i \in EventsOf(events, {"request"}) :
        events[i].response.kind \in {"timeout", "error", "status"}}

\* the cache entry under a key, Null when there is none
EntryAt(st, key) == IF key \in DOMAIN st THEN Some(st[key]) ELSE Null

(***************************************************************************)
(* C3: in every adapter's search with use_cache true, when the cache holds *)
(* a non-expired, nonempty entry for the sanitized query (with its filter  *)
(* suffix) and the adapter's source name, the search returns the first     *)
(* `limit` cached records, calls rate_limit_request not at all and issues  *)
(* no remote request, and leaves the source's last-call timestamp and the  *)
(* cache unchanged.                                                        *)
(***************************************************************************)
C3_CacheHit ==
    [][ (/\ SearchStep
         /\ obs'.use_cache
         /\ ~IsNull(obs'.cache_key)
         /\ NonEmpty(Lookup(Val(obs'.cache_key), obs'.api)))
        => /\ obs'.ret = Ok(Take(Val(Lookup(Val(obs'.cache_key), obs'.api)), obs'.limit))
           /\ EventsOf(obs'.events, {"rate_limit_request", "request", "cache_results"}) = {}
           /\ last_api_call' = last_api_call
           /\ store' = store
           /\ now' = now ]_vars

\* a search was answered from an entry holding more records than its limit
C3_Witness ==
    /\ obs.op = "search"
    /\ obs.use_cache
    /\ ~IsNull(obs.cache_key)
    /\ HasEntry(Val(obs.cache_key), obs.api)
    /\ Len(EntryOf(Val(obs.cache_key), obs.api).results) > obs.limit
    /\ obs.ret = Ok(Take(EntryOf(Val(obs.cache_key), obs.api).results, obs.limit))
    /\ EventsOf(obs.events, {"get_cached_results"}) = {1}
    /\ Len(obs.events) = 1

(***************************************************************************)
(* C4: when sanitize_query rejects the raw query, every adapter's search   *)
(* returns an empty list without raising, before any cache read, cache     *)
(* write, rate_limit_request call or remote request: the cache and the     *)
(* rate-limit timestamps are unchanged.                                    *)
(***************************************************************************)
C4_Rejected ==
    [][ (SearchStep /\ IsNull(obs'.clean_query))
        => /\ obs'.ret = Ok(<<>>)
           /\ obs'.events = <<>>
           /\ store' = store
           /\ last_api_call' = last_api_call ]_vars

\* a rejected search after an earlier search filled the cache and left a
\* rate-limit timestamp
C4_Witness ==
    /\ obs.op = "search"
    /\ obs.query # <<>>
    /\ IsNull(obs.clean_query)
    /\ obs.ret = Ok(<<>>)
    /\ DOMAIN store # {}
    /\ DOMAIN last_api_call # {}

(***************************************************************************)
(* C5: whatever the remote side answers (timeout, transport error, any     *)
(* status, a malformed body, or a well-formed body whose records have      *)
(* missing or null fields such as a null award amount), each adapter's     *)
(* search returns a list and never propagates an exception.                *)
(***************************************************************************)
C5_NeverRaises == obs.op = "search" => ~obs.ret.exc

(***************************************************************************)
(* C9: a search writes the cache only when the remote fetch succeeded and  *)
(* produced a nonempty normalized batch: after a search in which a remote  *)
(* request failed (a later NSF page and one of the two bioRxiv/medRxiv     *)
(* servers included) or in which no valid record was produced, the cache   *)
(* entry under the search's key is what it was before the search.          *)
(***************************************************************************)
C9_CacheOnlyOnSuccess ==
    [][ (/\ SearchStep
         /\ ~IsNull(obs'.cache_key)
         /\ \/ FailedRequests(obs'.events) # {}
            \/ obs'.ret = Ok(<<>>))
        => EntryAt(store', get_cache_key(Val(obs'.cache_key), obs'.api))
             = EntryAt(store, get_cache_key(Val(obs'.cache_key), obs'.api)) ]_vars

(***************************************************************************)
(* C10: for every remote response, no record lacking a 'title', 'authors'  *)
(* or 'year' key is in the list a search of any of the six adapters        *)
(* returns.                                                                *)
(***************************************************************************)
C10_RequiredFields ==
    (obs.op = "search" /\ ~obs.ret.exc)
        => \A i \in 1..Len(obs.ret.val) : REQUIRED_FIELDS \subseteq DOMAIN obs.ret.val[i]

(***************************************************************************)
(* The records one page of a remote response yields.  RecordsOf is what    *)
(* the adapter's own page loop makes of the records `page` when they are   *)
(* the content of the response of the request `e` of a search for `query`. *)
(***************************************************************************)
RecordRequests == {"efetch", "query", "paper/search", "details", "projects/search", "awards"}

PageOf(e) ==
    IF e.endpoint = "details" THEN e.response.body.collection
    ELSE IF e.endpoint = "query" THEN Take(e.response.body, e.params.max_results)
    ELSE e.response.body

RecordsOf(e, page, query, t) ==
    LET ctx == Context(<<>>, <<>>, t) IN
    CASE e.endpoint = "efetch" ->
           pubmed_fetch_paper_details(ctx, e.params.id, Body(page)).papers
      [] e.endpoint = "query" ->
           arxiv_search_papers(ctx, e.params.query, e.params.max_results,
                               e.params.filter_categories, Body(page)).papers
      [] e.endpoint = "paper/search" ->
           s2_search_papers(ctx, e.params.query, e.params.limit, Body(page)).papers
      [] e.endpoint = "details" ->
           biorxiv_get_recent_papers(ctx, e.params.server, query, MaxRecords,
                                     Body(Details(e.response.body.status, page))).papers
      [] e.endpoint = "projects/search" ->
           nih_search_projects(ctx, e.params.search_text, e.params.limit,
                               e.params.fiscal_years, e.params.include_active, Body(page)).papers
      [] e.endpoint = "awards" ->
           Parsed(page, nsf_parse_award)

\* the pages of records a search was answered with
PagesOf(events) ==
    {i \in EventsOf(events, {"request"}) :
        /\ events[i].endpoint \in RecordRequests
        /\ IsOk(events[i].response)
        /\ (events[i].endpoint = "details" => events[i].response.body.status = "ok")}

RECURSIVE OneByOne(_, _, _, _)
OneByOne(e, page, query, t) ==
    IF page = <<>> THEN <<>>
    ELSE RecordsOf(e, <<Head(page)>>, query, t) \o OneByOne(e, Tail(page), query, t)

(***************************************************************************)
(* C11: when one record of a remote response page is malformed, the        *)
(* adapter drops only that record and still yields the valid records of    *)
(* the same page: what a page yields is what its records yield one by one, *)
(* so a bad record never empties the batch.                                *)
(***************************************************************************)
C11_BadRecordDropped ==
    obs.op = "search" =>
        \A i \in PagesOf(obs.events) :
            RecordsOf(obs.events[i], PageOf(obs.events[i]), Val(obs.clean_query), now)
                = OneByOne(obs.events[i], PageOf(obs.events[i]), Val(obs.clean_query), now)

(***************************************************************************)
(* Single calls of the functions that keep no state: the caller passes     *)
(* arguments and takes the result.                                         *)
(***************************************************************************)
Called(op, args, ret) ==
    /\ obs.op = "none"
    /\ obs' = [op |-> op, args |-> args, ret |-> ret]
    /\ UNCHANGED <<data, now, last_api_call, store, ops, nticks>>
    /\ UNCHANGED rl_vars

\* texts of up to n pieces
RECURSIVE Joined(_, _)
Joined(pieces, n) ==
    IF n = 0 THEN {<<>>}
    ELSE LET shorter == Joined(pieces, n - 1) IN
         shorter \cup {s \o p : s \in shorter, p \in pieces}

MaxPieces == 3
QueryPieces ==
    {<<"d","b","s">>, <<"E","E","G"," ","2">>, <<" ">>, <<"\t">>, <<"\n">>, <<"[","A","u","t","h","o","r","]">>, <<"(","a",","," ","b",".",")">>, <<"j","a","v","a","s","c","r","i","p","t",":">>, <<"J","a","v","a","S","c","r","i","p","t",":">>,
     <<";">>, <<"D","R","O","P">>, <<"&","&">>, <<"|","|">>, <<"<","S","c","r","i","p","t">>, <<"$","(">>, <<"_">>, <<"i","t","'","s">>, <<"-","\"","x","\"","?","!">>}
LONGEST_QUERY == [i \in 1..MAX_QUERY_LENGTH |-> "a"]
RawQueries ==
    Joined(QueryPieces, MaxPieces)
    \cup {LONGEST_QUERY, LONGEST_QUERY \o <<"a">>, <<" ">> \o LONGEST_QUERY \o <<"\n">>,
          <<" ">> \o LONGEST_QUERY \o <<"a"," ">>}

Call_sanitize_query == \E raw \in RawQueries : Called("sanitize_query", <<raw>>, sanitize_query(raw))

(***************************************************************************)
(* C12: sanitize_query(raw) returns the trimmed input unchanged exactly    *)
(* when the trimmed input is nonempty, at most 200 characters long, made   *)
(* only of letters, digits, whitespace and the punctuation                 *)
(* - , . ' " ( ) : ? ! [ ] and matches none of the injection signatures;   *)
(* for every other input it returns None.                                  *)
(***************************************************************************)
Letters == {UpperCase[i] : i \in 1..Len(UpperCase)} \cup {LowerCase[i] : i \in 1..Len(LowerCase)}
Punctuation == {"-", ",", ".", "'", "\"", "(", ")", ":", "?", "!", "[", "]"}

StartsWith(text, prefix) == Len(prefix) <= Len(text) /\ SubSeq(text, 1, Len(prefix)) = prefix

\* a SQL keyword after ';' and any whitespace, whatever the case
SqlAfterSemicolon(text) ==
    \E i \in 1..Len(text) :
        /\ text[i] = ";"
        /\ \E k \in {<<"d","r","o","p">>, <<"d","e","l","e","t","e">>, <<"i","n","s","e","r","t">>, <<"u","p","d","a","t","e">>, <<"s","e","l","e","c","t">>} :
               StartsWith(LStrip(SubSeq(Lower(text), i + 1, Len(text))), k)

InjectionSignature(text) ==
    \/ SqlAfterSemicolon(text)
    \/ \E sig \in {<<"&","&">>, <<"|","|">>, <<"<","s","c","r","i","p","t">>, <<"j","a","v","a","s","c","r","i","p","t",":">>, <<"$","(">>} : Contains(Lower(text), sig)

Acceptable(trimmed) ==
    /\ trimmed # <<>>
    /\ Len(trimmed) <= 200
    /\ \A i \in 1..Len(trimmed) : trimmed[i] \in Letters \cup Digits \cup Whitespace \cup Punctuation
    /\ ~InjectionSignature(trimmed)

C12_Sanitize ==
    obs.op = "sanitize_query" =>
        obs.ret = IF Acceptable(Strip(obs.args[1])) THEN Some(Strip(obs.args[1])) ELSE Null

\* a query of 200 characters between whitespace was trimmed and accepted
C12_Witness ==
    /\ obs.op = "sanitize_query"
    /\ Len(obs.args[1]) > 200
    /\ obs.ret = Some(Strip(obs.args[1]))

(***************************************************************************)
(* C13: on a cache miss, each adapter's search returns at most `limit`     *)
(* records, ordered by non-increasing impact_score, and they are the       *)
(* `limit` highest-scored records of the normalized batch that was         *)
(* fetched.                                                                *)
(***************************************************************************)
\* the search went to the remote side
Missed == obs.op = "search" /\ EventsOf(obs.events, {"rate_limit_request"}) # {}

\* the batch the search fetched: what it cached, nothing when it cached nothing
BatchOf(o) ==
    IF EventsOf(o.events, {"cache_results"}) # {}
    THEN EntryOf(Val(o.cache_key), o.api).results
    ELSE <<>>

\* the score the adapter's ranking gives a record
ScoreIn(api_name, record, t) ==
    CASE api_name = PUBMED -> pubmed_score(record, t)
      [] api_name = ARXIV -> arxiv_score(record, t)
      [] api_name = BIORXIV -> biorxiv_score(record, t)
      [] api_name = SEMANTIC_SCHOLAR -> calculate_impact_score(record, t)
      [] api_name = NIH_REPORTER -> nih_score(record, t).val
      [] api_name = NSF_AWARDS -> nsf_score(record, t).val

Range(s) == {s[i] : i \in 1..Len(s)}

TopOf(ranked, batch, api_name, limit, t) ==
    LET scored == [j \in 1..Len(batch) |->
                      SetKey(batch[j], "impact_score", ScoreIn(api_name, batch[j], t))]
    IN  /\ Len(ranked) = Min(limit, Len(batch))
        /\ \A i \in 1..(Len(ranked) - 1) : ScoreOf(ranked[i]) >= ScoreOf(ranked[i + 1])
        /\ Range(ranked) \subseteq Range(scored)
        /\ \A j \in 1..Len(scored) :
               scored[j] \notin Range(ranked) => ScoreOf(scored[j]) <= ScoreOf(ranked[Len(ranked)])

C13_TopLimit ==
    Missed => /\ ~obs.ret.exc
              /\ TopOf(obs.ret.val, BatchOf(obs), obs.api, obs.limit, now)

(***************************************************************************)
(* C14: there is no automatic retry: within one search a remote request    *)
(* that failed (timeout, transport error, HTTP 429 or another status) is   *)
(* never sent again, and each request of a search (per phase, page or      *)
(* server) is attempted at most once.                                      *)
(***************************************************************************)
C14_NoRetry ==
    obs.op = "search" =>
        \A i, j \in EventsOf(obs.events, {"request"}) :
            i < j => \/ obs.events[i].endpoint # obs.events[j].endpoint
                     \/ obs.events[i].params # obs.events[j].params

\* a search whose only request was answered 429 came back empty
C14_Witness ==
    /\ obs.op = "search"
    /\ obs.ret = Ok(<<>>)
    /\ Cardinality(EventsOf(obs.events, {"request"})) = 1
    /\ \E i \in FailedRequests(obs.events) : obs.events[i].response = HttpStatus(429)

(***************************************************************************)
(* TopicClassifier.classify called on its own.                             *)
(***************************************************************************)
TitlePieces ==
    {<<"S","e","i","z","u","r","e">>, <<"r","e","v","i","e","w">>, <<"T","r","a","n","s","f","o","r","m","e","r">>, <<"i","n","t","e","r","i","c","t","a","l">>, <<"s","y","s","t","e","m","a","t","i","c"," ","r","e","v","i","e","w">>,
     <<"G","P","T">>, <<"c","a","t","s">>, <<"D","B","S">>, <<"s","u","r","v","e","y">>}
Titles == {Strip(a \o <<" ">> \o b) : a, b \in TitlePieces \cup {<<>>}}
Abstracts == {<<>>, <<"a"," ","s","u","r","v","e","y"," ","o","f"," ","m","e","t","h","o","d","s">>, <<"f","o","u","n","d","a","t","i","o","n"," ","m","o","d","e","l"," ","f","o","r"," ","s","e","i","z","u","r","e">>, <<"d","o","g","s">>}

Call_classify ==
    \E title \in Titles, abstract \in Abstracts :
        Called("classify", <<title, abstract>>,
               <<classify(title, abstract), classify_ttl(title, abstract)>>)

(***************************************************************************)
(* C15: classify returns the non-general bucket whose keyword-occurrence   *)
(* score is highest when that score is greater than zero, the              *)
(* first-declared one among the buckets tied for the highest score, and    *)
(* 'general' when every score is zero; the returned ttl_hours is the       *)
(* configured TTL of the returned bucket.                                  *)
(***************************************************************************)
Buckets == <<"epilepsy_clinical", "methods_reviews", "foundational">>

ConfiguredTTL(bucket) ==
    CASE bucket = "epilepsy_clinical" -> 168
      [] bucket = "methods_reviews" -> 720
      [] bucket = "foundational" -> 720
      [] bucket = "general" -> 24

BucketScore(o, i) == TopicScore(Lower(o.args[1] \o <<" ">> \o o.args[2]), Buckets[i])

C15_Classify ==
    obs.op = "classify" =>
        /\ IF \A i \in 1..Len(Buckets) : BucketScore(obs, i) = 0
           THEN obs.ret[1] = "general"
           ELSE \E i \in 1..Len(Buckets) :
                    /\ obs.ret[1] = Buckets[i]
                    /\ BucketScore(obs, i) > 0
                    /\ \A j \in 1..Len(Buckets) : BucketScore(obs, j) <= BucketScore(obs, i)
                    /\ \A j \in 1..(i - 1) : BucketScore(obs, j) < BucketScore(obs, i)
        /\ obs.ret[2] = ConfiguredTTL(obs.ret[1])

\* two buckets tied for the highest score and the first-declared was returned
C15_Witness ==
    /\ obs.op = "classify"
    /\ BucketScore(obs, 2) > 0
    /\ BucketScore(obs, 2) = BucketScore(obs, 3)
    /\ BucketScore(obs, 1) < BucketScore(obs, 2)
    /\ obs.ret = <<"methods_reviews", 720>>

(***************************************************************************)
(* relevance_scorer.RelevanceScorer                                        *)
(***************************************************************************)
\* lines 16-93: the categories in the order of the dict
KEYWORD_WEIGHTS ==
    <<[name |-> "core", weight |-> 10, keywords |->
        <<<<"e","p","i","l","e","p","s","y">>, <<"s","e","i","z","u","r","e">>, <<"i","n","t","e","r","i","c","t","a","l">>, <<"i","c","t","a","l">>, <<"e","p","i","l","e","p","t","i","f","o","r","m">>,
          <<"a","n","t","i","c","o","n","v","u","l","s","a","n","t">>, <<"a","n","t","i","e","p","i","l","e","p","t","i","c">>, <<"t","e","m","p","o","r","a","l"," ","l","o","b","e"," ","e","p","i","l","e","p","s","y">>>>],
      [name |-> "modality", weight |-> 8, keywords |->
        <<<<"i","E","E","G">>, <<"i","n","t","r","a","c","r","a","n","i","a","l"," ","E","E","G">>, <<"s","E","E","G">>, <<"s","t","e","r","e","o","-","E","E","G">>, <<"E","C","o","G">>,
          <<"e","l","e","c","t","r","o","c","o","r","t","i","c","o","g","r","a","p","h","y">>, <<"d","e","p","t","h"," ","e","l","e","c","t","r","o","d","e">>, <<"s","u","b","d","u","r","a","l">>>>],
      [name |-> "regions", weight |-> 7, keywords |->
        <<<<"t","h","a","l","a","m","u","s">>, <<"t","h","a","l","a","m","i","c">>, <<"h","i","p","p","o","c","a","m","p","u","s">>, <<"h","i","p","p","o","c","a","m","p","a","l">>,
          <<"a","n","t","e","r","i","o","r"," ","n","u","c","l","e","u","s">>, <<"c","e","n","t","r","o","m","e","d","i","a","n">>, <<"p","u","l","v","i","n","a","r">>,
          <<"l","i","m","b","i","c"," ","s","y","s","t","e","m">>, <<"a","m","y","g","d","a","l","a">>>>],
      [name |-> "neuromodulation", weight |-> 8, keywords |->
        <<<<"d","e","e","p"," ","b","r","a","i","n"," ","s","t","i","m","u","l","a","t","i","o","n">>, <<"D","B","S">>, <<"r","e","s","p","o","n","s","i","v","e"," ","n","e","u","r","o","s","t","i","m","u","l","a","t","i","o","n">>,
          <<"R","N","S">>, <<"n","e","u","r","o","m","o","d","u","l","a","t","i","o","n">>, <<"e","l","e","c","t","r","i","c","a","l"," ","s","t","i","m","u","l","a","t","i","o","n">>,
          <<"c","l","o","s","e","d","-","l","o","o","p">>, <<"a","d","a","p","t","i","v","e"," ","s","t","i","m","u","l","a","t","i","o","n">>>>],
      [name |-> "biomarkers", weight |-> 7, keywords |->
        <<<<"b","i","o","m","a","r","k","e","r">>, <<"s","e","i","z","u","r","e"," ","p","r","e","d","i","c","t","i","o","n">>, <<"s","e","i","z","u","r","e"," ","f","o","r","e","c","a","s","t","i","n","g">>,
          <<"b","r","a","i","n"," ","s","t","a","t","e">>, <<"c","o","n","n","e","c","t","i","v","i","t","y">>, <<"f","u","n","c","t","i","o","n","a","l"," ","c","o","n","n","e","c","t","i","v","i","t","y">>,
          <<"h","i","g","h","-","f","r","e","q","u","e","n","c","y"," ","o","s","c","i","l","l","a","t","i","o","n">>, <<"H","F","O">>>>],
      [name |-> "methods", weight |-> 6, keywords |->
        <<<<"m","a","c","h","i","n","e"," ","l","e","a","r","n","i","n","g">>, <<"d","e","e","p"," ","l","e","a","r","n","i","n","g">>, <<"n","e","u","r","a","l"," ","n","e","t","w","o","r","k">>,
          <<"f","o","u","n","d","a","t","i","o","n"," ","m","o","d","e","l">>, <<"t","r","a","n","s","f","o","r","m","e","r">>, <<"L","S","T","M">>, <<"C","N","N">>,
          <<"d","y","n","a","m","i","c","a","l"," ","s","y","s","t","e","m","s">>, <<"K","o","o","p","m","a","n">>, <<"s","t","a","t","e"," ","s","p","a","c","e"," ","m","o","d","e","l">>>>],
      [name |-> "clinical", weight |-> 5, keywords |->
        <<<<"d","r","u","g","-","r","e","s","i","s","t","a","n","t">>, <<"r","e","f","r","a","c","t","o","r","y"," ","e","p","i","l","e","p","s","y">>, <<"s","u","r","g","i","c","a","l">>,
          <<"r","e","s","e","c","t","i","o","n">>, <<"e","p","i","l","e","p","s","y"," ","s","u","r","g","e","r","y">>, <<"s","e","i","z","u","r","e"," ","f","r","e","e","d","o","m">>,
          <<"c","l","i","n","i","c","a","l"," ","t","r","i","a","l">>, <<"p","a","t","i","e","n","t">>>>],
      [name |-> "devices", weight |-> 6, keywords |->
        <<<<"N","e","u","r","o","P","a","c","e">>, <<"M","e","d","t","r","o","n","i","c">>, <<"S","u","m","m","i","t">>, <<"R","C","+","S">>, <<"P","e","r","c","e","p","t">>,
          <<"N","e","u","r","o","p","i","x","e","l","s">>, <<"P","r","e","c","i","s","i","o","n"," ","N","e","u","r","o","s","c","i","e","n","c","e">>, <<"A","x","o","f","t">>>>]>>

\* lines 140-149: total_matches of one keyword
total_matches(keyword_lower, title_lower, abstract_lower, full_text_lower) ==
    Count(title_lower, keyword_lower) * 3
    + Count(abstract_lower, keyword_lower) * 2
    + (IF full_text_lower # <<>> THEN Min(Count(full_text_lower, keyword_lower), 10) ELSE 0)

\* lines 134-153: category_matches of category c, summed from keyword k on
RECURSIVE category_matches(_, _, _, _, _)
category_matches(c, k, title_lower, abstract_lower, full_text_lower) ==
    IF k > Len(KEYWORD_WEIGHTS[c].keywords) THEN 0
    ELSE total_matches(Lower(KEYWORD_WEIGHTS[c].keywords[k]), title_lower, abstract_lower, full_text_lower)
         + category_matches(c, k + 1, title_lower, abstract_lower, full_text_lower)

\* the weighted matches of a category without the cap
category_score_uncapped(matches, weight) == matches * weight

\* lines 156-158: min(category_matches * weight, weight * 5)
category_score(matches, weight) == Min(matches * weight, weight * 5)

RECURSIVE SumSeq(_)
SumSeq(s) == IF s = <<>> THEN 0 ELSE Head(s) + SumSeq(Tail(s))

\* the totals below 400 for which (total_score / 400) * 100 in double
\* arithmetic falls just short of the whole number total_score / 4
FLOAT_SHORT == {116, 228, 232}

\* line 163: min(int((total_score / 400) * 100), 100) for totals up to 400
normalized_score(total_score) ==
    Min((total_score \div 4) - (IF total_score \in FLOAT_SHORT THEN 1 ELSE 0), 100)

\* lines 187-196: category_map
category_map(name) ==
    CASE name = "core" -> <<"C","o","r","e"," ","e","p","i","l","e","p","s","y"," ","r","e","s","e","a","r","c","h">>
      [] name = "modality" -> <<"i","E","E","G","/","E","C","o","G"," ","r","e","c","o","r","d","i","n","g">>
      [] name = "regions" -> <<"R","e","l","e","v","a","n","t"," ","b","r","a","i","n"," ","r","e","g","i","o","n","s">>
      [] name = "neuromodulation" -> <<"D","B","S","/","R","N","S"," ","n","e","u","r","o","m","o","d","u","l","a","t","i","o","n">>
      [] name = "biomarkers" -> <<"B","i","o","m","a","r","k","e","r"," ","d","e","v","e","l","o","p","m","e","n","t">>
      [] name = "methods" -> <<"M","L","/","d","y","n","a","m","i","c","a","l"," ","s","y","s","t","e","m","s"," ","m","e","t","h","o","d","s">>
      [] name = "clinical" -> <<"C","l","i","n","i","c","a","l"," ","t","r","a","n","s","l","a","t","i","o","n">>
      [] name = "devices" -> <<"S","p","e","c","i","f","i","c"," ","d","e","v","i","c","e","s","/","p","l","a","t","f","o","r","m","s">>

\* lines 203-204
PRIORITY_KEYWORDS ==
    <<<<"f","o","u","n","d","a","t","i","o","n"," ","m","o","d","e","l">>, <<"c","l","o","s","e","d","-","l","o","o","p">>, <<"s","e","i","z","u","r","e"," ","p","r","e","d","i","c","t","i","o","n">>, <<"t","h","a","l","a","m","i","c"," ","D","B","S">>,
      <<"r","e","s","p","o","n","s","i","v","e"," ","n","e","u","r","o","s","t","i","m","u","l","a","t","i","o","n">>>>

\* lines 170-210: _generate_reasons
generate_reasons(categories, keywords) ==
    IF categories = <<>> THEN <<<<"N","o"," ","m","a","t","c","h","e","s"," ","f","o","u","n","d">>>>
    ELSE LET top == Take(categories, 3)
             found(kw) == kw \in keywords
             priority == SelectSeq(PRIORITY_KEYWORDS, found)
         IN  Take([i \in 1..Len(top) |-> category_map(top[i])]
                  \o [i \in 1..Len(priority) |-> <<"C","o","n","t","a","i","n","s"," ","'">> \o priority[i] \o <<"'">>], 5)

\* lines 108-168: score_paper; total_score is the weighted total before it
\* is normalized
score_paper(title, abstract, full_text) ==
    LET title_lower == Lower(title)
        abstract_lower == Lower(abstract)
        full_text_lower == Lower(full_text)
        cats == 1..Len(KEYWORD_WEIGHTS)
        matches == [c \in cats |-> category_matches(c, 1, title_lower, abstract_lower, full_text_lower)]
        matched(c) == matches[c] > 0
        matched_categories == SelectSeq([c \in cats |-> c], matched)
        positions == UNION {{<<c, k>> : k \in 1..Len(KEYWORD_WEIGHTS[c].keywords)} : c \in cats}
        matched_keywords ==
            {KEYWORD_WEIGHTS[p[1]].keywords[p[2]] :
                p \in {q \in positions :
                          total_matches(Lower(KEYWORD_WEIGHTS[q[1]].keywords[q[2]]),
                                        title_lower, abstract_lower, full_text_lower) > 0}}
        total_score == SumSeq([c \in cats |->
                          IF matches[c] > 0
                          THEN category_score(matches[c], KEYWORD_WEIGHTS[c].weight) ELSE 0])
    IN  [score |-> normalized_score(total_score),
         reasons |-> generate_reasons(
                        [i \in 1..Len(matched_categories) |-> KEYWORD_WEIGHTS[matched_categories[i]].name],
                        matched_keywords),
         total_score |-> total_score]

\* line 99: the annotation Optional[Dict] names Optional, which line 11 does
\* not import.  An interpreter that evaluates annotations when the function
\* is defined raises NameError while the class body runs, so the module does
\* not load and no scorer exists; one that defers annotations loads it.
RelevanceScorer(annotations_deferred, title, abstract, full_text) ==
    IF annotations_deferred THEN Ok(score_paper(title, abstract, full_text))
    ELSE Raise

\* one keyword of every category
ALL_CATEGORIES == <<"s","e","i","z","u","r","e"," ","s","E","E","G"," ","t","h","a","l","a","m","u","s"," ","D","B","S"," ","H","F","O"," ","C","N","N"," ","p","a","t","i","e","n","t"," ","A","x","o","f","t">>

ScorerTitles ==
    {<<>>, <<"P","a","t","i","e","n","t">>, <<"T","r","a","n","s","f","o","r","m","e","r">>, <<"S","e","i","z","u","r","e"," ","p","r","e","d","i","c","t","i","o","n"," ","f","r","o","m"," ","i","E","E","G">>,
     <<"F","o","u","n","d","a","t","i","o","n"," ","m","o","d","e","l"," ","f","o","r"," ","c","l","o","s","e","d","-","l","o","o","p"," ","D","B","S"," ","i","n"," ","e","p","i","l","e","p","s","y">>, ALL_CATEGORIES}

ScorerAbstracts ==
    {<<>>, <<"a"," ","C","N","N">>, <<"t","h","a","l","a","m","i","c"," ","D","B","S"," ","i","n"," ","p","a","t","i","e","n","t","s"," ","w","i","t","h"," ","d","r","u","g","-","r","e","s","i","s","t","a","n","t"," ","e","p","i","l","e","p","s","y">>,
     <<"s","e","i","z","u","r","e"," ","s","e","i","z","u","r","e"," ","s","e","i","z","u","r","e">>, ALL_CATEGORIES, <<"s","e","i","z","u","r","e"," ","s","E","E","G"," ","t","h","a","l","a","m","u","s"," ","D","B","S"," ","H","F","O"," ","C","N","N"," ","A","x","o","f","t">>}

ScorerFullTexts ==
    {<<>>, <<"t","r","a","n","s","f","o","r","m","e","r">>, <<"p","a","t","i","e","n","t">>, <<"N","e","u","r","o","P","a","c","e"," ","R","N","S">>, <<"h","i","p","p","o","c","a","m","p","u","s"," ","a","n","d"," ","t","h","a","l","a","m","u","s",";"," ","s","u","r","g","i","c","a","l"," ","r","e","s","e","c","t","i","o","n">>,
     <<"h","f","o"," ","h","f","o"," ","h","f","o"," ","h","f","o"," ","h","f","o"," ","h","f","o"," ","h","f","o"," ","h","f","o"," ","h","f","o"," ","h","f","o"," ","h","f","o"," ","h","f","o">>,
     <<"e","p","i","l","e","p","s","y"," ","e","p","i","l","e","p","s","y"," ","e","p","i","l","e","p","s","y"," ","e","p","i","l","e","p","s","y"," ","e","p","i","l","e","p","s","y"," ","s","E","E","G"," ","s","E","E","G"," ","s","E","E","G"," ","s","E","E","G"," ","s","E","E","G"," ","p","u","l","v","i","n","a","r"," ","p","u","l","v","i","n","a","r"," ","p","u","l","v","i","n","a","r"," ","r","e","s","e","c","t","i","o","n">>}

Call_score_paper ==
    \E title \in ScorerTitles, abstract \in ScorerAbstracts, full_text \in ScorerFullTexts,
       annotations_deferred \in BOOLEAN :
        Called("score_paper", <<title, abstract, full_text>>,
               RelevanceScorer(annotations_deferred, title, abstract, full_text))

\* C16: score_paper returns an integer score within 0..100 for every title,
\* abstract and full text, and 0 when the three are empty.
C16_ScoreBounded ==
    obs.op = "score_paper" =>
        /\ ~obs.ret.exc
        /\ obs.ret.val.score \in 0..100
        /\ (obs.args = <<<<>>, <<>>, <<>>>> => obs.ret.val.score = 0)

\* C17: for every weighted total T that score_paper computes, the returned
\* score is min(100, round(100 * T / 400)).
C17_Normalised ==
    (obs.op = "score_paper" /\ ~obs.ret.exc) =>
        obs.ret.val.score = Min(100, (100 * obs.ret.val.total_score + 200) \div 400)

(***************************************************************************)
(* field_detector.FieldDetector.  The configuration is read from a JSON    *)
(* file; weights and the threshold are kept in tenths, the count of        *)
(* matches in tenths (a word-only match counts 0.8), and scores and        *)
(* confidences are fractions [num, den] with den > 0, so that a quotient   *)
(* is 1 exactly when numerator and denominator agree.                      *)
(***************************************************************************)
RECURSIVE GCD(_, _)
GCD(a, b) == IF b = 0 THEN a ELSE GCD(b, a % b)

\* num / den in lowest terms
Frac(num, den) == [num |-> num \div GCD(num, den), den |-> den \div GCD(num, den)]
FracGE(a, b) == a.num * b.den >= b.num * a.den
FracDiv(a, b) == Frac(a.num * b.den, a.den * b.num)
ONE == Frac(1, 1)
ZERO == Frac(0, 1)

\* lines 69-78: the configuration used when the file cannot be read
FALLBACK_CONFIG ==
    [fields |-> <<[name |-> <<"g","e","n","e","r","a","l">>, keywords |-> <<>>, weight |-> 10,
                   databases |-> <<<<"s","e","m","a","n","t","i","c","_","s","c","h","o","l","a","r">>>>]>>,
     default_databases |-> <<<<"s","e","m","a","n","t","i","c","_","s","c","h","o","l","a","r">>>>,
     confidence_threshold |-> 3]

\* the two tests of lines 119-125 in the other order: the word-level test
\* first
keyword_matches_word_first(keyword, query_lower, query_words) ==
    LET keyword_lower == Lower(keyword) IN
    IF Len(Split(keyword_lower)) = 1 /\ keyword_lower \in query_words THEN 8
    ELSE IF Contains(query_lower, keyword_lower) THEN 10
    ELSE 0

\* lines 116-125: what one keyword adds to matches, in tenths
keyword_matches(keyword, query_lower, query_words) ==
    LET keyword_lower == Lower(keyword) IN
    IF Contains(query_lower, keyword_lower) THEN 10
    ELSE IF Len(Split(keyword_lower)) = 1 /\ keyword_lower \in query_words THEN 8
    ELSE 0

\* lines 112-125: matches of a field's keywords from keyword k on, in tenths
RECURSIVE field_matches(_, _, _, _)
field_matches(keywords, k, query_lower, query_words) ==
    IF k > Len(keywords) THEN 0
    ELSE keyword_matches(keywords[k], query_lower, query_words)
         + field_matches(keywords, k + 1, query_lower, query_words)

\* lines 116-125: matched_keywords
matched_keywords_of(keywords, query_lower, query_words) ==
    LET hit(kw) == keyword_matches(kw, query_lower, query_words) > 0
    IN  SelectSeq(keywords, hit)

\* lines 107-131: field_scores and keywords_matched, in the order of the
\* configuration; score = (matches / len(keywords)) * weight
field_scores_of(fields, query_lower, query_words) ==
    LET matches(i) == field_matches(fields[i].keywords, 1, query_lower, query_words)
        scored(i) == matches(i) > 0
        hits == SelectSeq([i \in 1..Len(fields) |-> i], scored)
    IN  [j \in 1..Len(hits) |->
            [field |-> fields[hits[j]].name,
             score |-> Frac(matches(hits[j]) * fields[hits[j]].weight,
                            100 * Len(fields[hits[j]].keywords)),
             keywords |-> matched_keywords_of(fields[hits[j]].keywords, query_lower, query_words)]]

\* line 135: max(field_scores.values())
RECURSIVE max_score_of(_)
max_score_of(scores) ==
    IF Len(scores) = 1 THEN scores[1].score
    ELSE LET rest == max_score_of(Tail(scores)) IN
         IF FracGE(scores[1].score, rest) THEN scores[1].score ELSE rest

\* the scores themselves, not divided by the maximum
confidence_scores_raw(scores) ==
    [j \in 1..Len(scores) |-> [field |-> scores[j].field, conf |-> scores[j].score]]

\* lines 134-141: confidence_scores
confidence_scores_of(scores) ==
    IF scores = <<>> THEN <<>>
    ELSE LET max_score == max_score_of(scores) IN
         [j \in 1..Len(scores) |->
            [field |-> scores[j].field,
             conf |-> IF max_score.num > 0 THEN FracDiv(scores[j].score, max_score) ELSE ZERO]]

\* line 150: detected_fields.sort(key=..., reverse=True), a stable sort
RECURSIVE InsertByConf(_, _)
InsertByConf(sorted, c) ==
    IF sorted = <<>> THEN <<c>>
    ELSE IF FracGE(Head(sorted).conf, c.conf)
         THEN <<Head(sorted)>> \o InsertByConf(Tail(sorted), c)
         ELSE <<c>> \o sorted

RECURSIVE SortedByConf(_, _)
SortedByConf(cs, acc) ==
    IF cs = <<>> THEN acc
    ELSE SortedByConf(Tail(cs), InsertByConf(acc, Head(cs)))

\* lines 144-150: detected_fields
detected_fields_of(confidences, confidence_threshold) ==
    LET above(c) == FracGE(c.conf, Frac(confidence_threshold, 10))
        sorted == SortedByConf(SelectSeq(confidences, above), <<>>)
    IN  [j \in 1..Len(sorted) |-> sorted[j].field]

\* lines 186-193: database_scores[db] += field_weight * (1.0 - i * 0.1), in
\* hundredths; a new key is placed after the keys already there
RECURSIVE database_scores_of(_, _, _)
database_scores_of(contributions, k, acc) ==
    IF k > Len(contributions) THEN acc
    ELSE LET c == contributions[k]
             at == {j \in 1..Len(acc) : acc[j].db = c.db}
         IN  database_scores_of(contributions, k + 1,
                IF at = {} THEN Append(acc, c)
                ELSE [j \in 1..Len(acc) |->
                        IF j \in at THEN [db |-> c.db, weight |-> acc[j].weight + c.weight]
                        ELSE acc[j]])

RECURSIVE InsertByWeight(_, _)
InsertByWeight(sorted, d) ==
    IF sorted = <<>> THEN <<d>>
    ELSE IF Head(sorted).weight >= d.weight
         THEN <<Head(sorted)>> \o InsertByWeight(Tail(sorted), d)
         ELSE <<d>> \o sorted

RECURSIVE SortedByWeight(_, _)
SortedByWeight(ds, acc) ==
    IF ds = <<>> THEN acc
    ELSE SortedByWeight(Tail(ds), InsertByWeight(acc, Head(ds)))

RECURSIVE Flatten(_)
Flatten(ss) == IF ss = <<>> THEN <<>> ELSE Head(ss) \o Flatten(Tail(ss))

\* lines 170-202: _get_recommended_sources
get_recommended_sources(config, detected_fields) ==
    IF detected_fields = <<>> THEN config.default_databases
    ELSE LET top == Take(detected_fields, 3)
             config_of(field) ==
                 config.fields[CHOOSE i \in 1..Len(config.fields) : config.fields[i].name = field]
             of_field(field) ==
                 LET databases == config_of(field).databases IN
                 [i \in 1..Len(databases) |->
                     [db |-> databases[i], weight |-> config_of(field).weight * (10 - (i - 1))]]
             database_scores ==
                 database_scores_of(Flatten([f \in 1..Len(top) |-> of_field(top[f])]), 1, <<>>)
             sorted_databases == SortedByWeight(database_scores, <<>>)
         IN  [j \in 1..Len(sorted_databases) |-> sorted_databases[j].db]

\* lines 204-216: _default_result
default_result(config) ==
    [detected_fields |-> <<>>, confidence_scores |-> <<>>,
     recommended_sources |-> config.default_databases, keywords_matched |-> <<>>]

\* lines 80-166: detect_fields; the two dicts are kept as sequences of
\* their items, in insertion order
detect_fields(config, query) ==
    LET clean_query == sanitize_query(query) IN
    IF IsNull(clean_query) \/ Val(clean_query) = <<>> THEN default_result(config)
    ELSE LET query_lower == Lower(Val(clean_query))
             query_words == {Split(query_lower)[i] : i \in 1..Len(Split(query_lower))}
             field_scores == field_scores_of(config.fields, query_lower, query_words)
             confidence_scores == confidence_scores_of(field_scores)
             detected_fields == detected_fields_of(confidence_scores, config.confidence_threshold)
         IN  [detected_fields |-> detected_fields,
              confidence_scores |-> confidence_scores,
              recommended_sources |-> get_recommended_sources(config, detected_fields),
              keywords_matched |->
                  [j \in 1..Len(field_scores) |->
                      [field |-> field_scores[j].field, keywords |-> field_scores[j].keywords]]]

\* configurations a field_keywords.json can hold
CONFIG_A ==
    [fields |->
        <<[name |-> <<"e","p","i","l","e","p","s","y">>, weight |-> 15,
           keywords |-> <<<<"s","e","i","z","u","r","e">>, <<"e","p","i","l","e","p","s","y">>, <<"E","E","G">>, <<"s","e","i","z","u","r","e"," ","p","r","e","d","i","c","t","i","o","n">>>>,
           databases |-> <<<<"p","u","b","m","e","d">>, <<"s","e","m","a","n","t","i","c","_","s","c","h","o","l","a","r">>>>],
          [name |-> <<"m","a","c","h","i","n","e","_","l","e","a","r","n","i","n","g">>, weight |-> 10,
           keywords |-> <<<<"m","a","c","h","i","n","e"," ","l","e","a","r","n","i","n","g">>, <<"L","S","T","M">>, <<"n","e","u","r","a","l"," ","n","e","t","w","o","r","k">>>>,
           databases |-> <<<<"a","r","x","i","v">>, <<"s","e","m","a","n","t","i","c","_","s","c","h","o","l","a","r">>>>],
          [name |-> <<"s","i","g","n","a","l","_","p","r","o","c","e","s","s","i","n","g">>, weight |-> 12,
           keywords |-> <<<<"w","a","v","e","l","e","t">>, <<"E","E","G">>>>,
           databases |-> <<<<"a","r","x","i","v">>, <<"p","u","b","m","e","d">>, <<"s","e","m","a","n","t","i","c","_","s","c","h","o","l","a","r">>>>],
          [name |-> <<"g","e","n","e","r","a","l">>, weight |-> 10, keywords |-> <<>>,
           databases |-> <<<<"s","e","m","a","n","t","i","c","_","s","c","h","o","l","a","r">>>>]>>,
     default_databases |-> <<<<"s","e","m","a","n","t","i","c","_","s","c","h","o","l","a","r">>>>,
     confidence_threshold |-> 3]

CONFIG_B ==
    [fields |->
        <<[name |-> <<"n","e","u","r","o","s","c","i","e","n","c","e">>, weight |-> 8,
           keywords |-> <<<<"n","e","u","r","o","n">>, <<"b","r","a","i","n">>, <<"E","E","G">>, <<"c","o","r","t","e","x">>, <<"s","e","i","z","u","r","e">>>>,
           databases |-> <<<<"p","u","b","m","e","d">>>>],
          [name |-> <<"m","a","c","h","i","n","e","_","l","e","a","r","n","i","n","g">>, weight |-> 10,
           keywords |-> <<<<"m","a","c","h","i","n","e"," ","l","e","a","r","n","i","n","g">>, <<"L","S","T","M">>>>,
           databases |-> <<<<"a","r","x","i","v">>, <<"s","e","m","a","n","t","i","c","_","s","c","h","o","l","a","r">>>>],
          [name |-> <<"e","p","i","l","e","p","s","y">>, weight |-> 20,
           keywords |-> <<<<"s","e","i","z","u","r","e">>, <<"e","p","i","l","e","p","s","y">>>>,
           databases |-> <<<<"p","u","b","m","e","d">>, <<"s","e","m","a","n","t","i","c","_","s","c","h","o","l","a","r">>>>]>>,
     default_databases |-> <<<<"s","e","m","a","n","t","i","c","_","s","c","h","o","l","a","r">>, <<"a","r","x","i","v">>>>,
     confidence_threshold |-> 5]

FieldConfigs == {FALLBACK_CONFIG, CONFIG_A, CONFIG_B}

DetectQueries ==
    {<<>>, <<"s","e","i","z","u","r","e"," ","p","r","e","d","i","c","t","i","o","n">>, <<"L","S","T","M"," ","s","e","i","z","u","r","e">>, <<"m","a","c","h","i","n","e"," ","l","e","a","r","n","i","n","g"," ","f","o","r"," ","e","p","i","l","e","p","s","y"," ","E","E","G">>,
     <<"w","a","v","e","l","e","t"," ","E","E","G">>, <<"H","o","w"," ","d","o"," ","n","e","u","r","o","n","s"," ","c","o","m","m","u","n","i","c","a","t","e","?">>, <<";"," ","D","R","O","P"," ","T","A","B","L","E"," ","p","a","p","e","r","s">>,
     <<"l","s","t","m"," ","n","e","u","r","a","l"," ","n","e","t","w","o","r","k"," ","e","p","i","l","e","p","s","y"," ","w","a","v","e","l","e","t">>, <<"b","r","a","i","n"," ","E","E","G"," ","w","i","t","h"," ","L","S","T","M">>}

Call_detect_fields ==
    \E config \in FieldConfigs, query \in DetectQueries :
        Called("detect_fields", <<config, query>>, detect_fields(config, query))

\* the confidence that confidence_scores holds for a field
ConfidenceOf(ret, field) ==
    LET j == CHOOSE j \in 1..Len(ret.confidence_scores) : ret.confidence_scores[j].field = field
    IN  ret.confidence_scores[j].conf

\* C18: when detect_fields returns at least one detected field, the largest
\* confidence is exactly 1.0, the first detected field has confidence 1.0,
\* and detected_fields is in non-increasing order of confidence with every
\* member at or above confidence_threshold.
C18_Confidence ==
    (obs.op = "detect_fields" /\ obs.ret.detected_fields # <<>>) =>
        LET ret == obs.ret
            detected == ret.detected_fields
            conf(i) == ConfidenceOf(ret, detected[i])
        IN  /\ \E j \in 1..Len(ret.confidence_scores) :
                  ret.confidence_scores[j].conf.num = ret.confidence_scores[j].conf.den
            /\ \A j \in 1..Len(ret.confidence_scores) : FracGE(ONE, ret.confidence_scores[j].conf)
            /\ conf(1).num = conf(1).den
            /\ \A i, j \in 1..Len(detected) : i < j => FracGE(conf(i), conf(j))
            /\ \A i \in 1..Len(detected) :
                  FracGE(conf(i), Frac(obs.args[1].confidence_threshold, 10))

\* two fields are detected and the sort puts the later one of the
\* configuration first
C18_Witness ==
    /\ obs.op = "detect_fields"
    /\ obs.ret.detected_fields = <<<<"m","a","c","h","i","n","e","_","l","e","a","r","n","i","n","g">>, <<"n","e","u","r","o","s","c","i","e","n","c","e">>>>
    /\ obs.ret.confidence_scores[1].field = <<"n","e","u","r","o","s","c","i","e","n","c","e">>
    /\ obs.ret.confidence_scores[1].conf = Frac(16, 25)

(***************************************************************************)
(* Single calls of paper_utils.validate_paper_data                         *)
(***************************************************************************)
\* titles: missing text, short, of exactly and of just over the longest
\* accepted length
ValidatedTitles ==
    {Null, Some(<<"P","a","p","e","r">>), Some([i \in 1..MAX_TITLE_LENGTH |-> "a"]),
     Some([i \in 1..(MAX_TITLE_LENGTH + 1) |-> "a"])}

ValidatedYears ==
    {Null, Some(0), Some(-1), Some(1800), Some(MIN_YEAR - 1), Some(MIN_YEAR), Some(2023),
     Some(current_year(0) + 1), Some(current_year(0) + 2)}

\* the record without the keys in dropped
Without(paper, dropped) == [k \in DOMAIN paper \ dropped |-> paper[k]]

ValidatedPapers ==
    {Without([title |-> title, authors |-> <<"Author">>, year |-> year], dropped) :
        title \in ValidatedTitles, year \in ValidatedYears,
        dropped \in {{}, {"title"}, {"authors"}, {"year"}}}

Call_validate_paper_data ==
    \E paper \in ValidatedPapers :
        Called("validate_paper_data", <<paper>>, validate_paper_data(paper, now))

\* the year of the record is an integer outside 1900..current_year+1
YearOutOfRange(paper, t) ==
    /\ "year" \in DOMAIN paper
    /\ ~IsNull(paper.year)
    /\ ~(MIN_YEAR <= Val(paper.year) /\ Val(paper.year) <= current_year(t) + 1)

\* the title of the record is a text of more than 500 characters
TitleTooLong(paper) ==
    /\ "title" \in DOMAIN paper
    /\ ~IsNull(paper.title)
    /\ Len(Val(paper.title)) > MAX_TITLE_LENGTH

\* C19: validate_paper_data returns False for every record whose year is an
\* integer outside 1900..current_year+1 or whose title is longer than 500
\* characters, and True for every record that has the keys title, authors
\* and year, a title of at most 500 characters and a year that is None or
\* within 1900..current_year+1.
C19_Validate ==
    obs.op = "validate_paper_data" =>
        LET paper == obs.args[1] IN
        /\ (YearOutOfRange(paper, now) \/ TitleTooLong(paper)) => obs.ret = Ok(FALSE)
        /\ (/\ REQUIRED_FIELDS \subseteq DOMAIN paper
            /\ ~IsNull(paper.title)
            /\ ~TitleTooLong(paper)
            /\ ~YearOutOfRange(paper, now)) => obs.ret = Ok(TRUE)

(***************************************************************************)
(* Damaged cache entries.  Between two searches the stored value of an     *)
(* entry is damaged on disk: it can no longer be loaded, or it has lost    *)
(* its timestamp.                                                          *)
(***************************************************************************)
CorruptionsOf(cache_entry) == {UNREADABLE, Without(cache_entry, {"timestamp"})}

Corrupt ==
    /\ obs.op = "idle"
    /\ \E k \in DOMAIN store :
          /\ ~ReadFails(store[k].value)
          /\ \E damaged \in CorruptionsOf(store[k].value) :
                store' = [store EXCEPT ![k] = [value |-> damaged, expire_time |-> store[k].expire_time]]
    /\ UNCHANGED <<data, now, last_api_call, obs, ops, nticks>>
    /\ UNCHANGED rl_vars

CorruptNext ==
    \/ \E q \in SearchQueries, l \in Limits, c \in BOOLEAN, r \in BOOLEAN :
           PubMedSearch_search(q, l, c, r)
    \/ \E q \in SearchQueries, l \in Limits, c \in BOOLEAN, f \in BOOLEAN :
           ArxivSearch_search(q, l, c, f)
    \/ \E q \in SearchQueries, s \in Servers, l \in Limits, c \in BOOLEAN :
           BiorxivSearch_search(q, s, l, c)
    \/ \E q \in SearchQueries, l \in Limits, c \in BOOLEAN :
           SemanticScholarSearch_search(q, l, c)
    \/ \E q \in SearchQueries, l \in Limits, c \in BOOLEAN, r \in BOOLEAN :
           NIHReporterSearch_search_projects(q, l, c, r, FALSE)
    \/ \E q \in SearchQueries, l \in NSFLimits, c \in BOOLEAN, m \in MinFundings :
           NSFAwardsSearch_search_awards(q, l, c, FALSE, m)
    \/ Idle
    \/ Corrupt

SpecCorrupt == Init /\ [][CorruptNext]_vars

\* the search reads the cache under a key whose live entry cannot be read
ReadsDamaged(st, o, t) ==
    /\ o.use_cache
    /\ ~IsNull(o.cache_key)
    /\ LET key == get_cache_key(Val(o.cache_key), o.api) IN
          /\ key \in DOMAIN st
          /\ st[key].expire_time > t
          /\ ReadFails(st[key].value)

\* C20: when reading a cache entry fails, get_cached_results reports a miss
\* without raising, the damaged entry is deleted from the cache, and the
\* calling search goes on to a live fetch.
C20_CorruptDeleted ==
    [][ (SearchStep /\ ReadsDamaged(store, obs', now))
        => LET key == get_cache_key(Val(obs'.cache_key), obs'.api) IN
           /\ get_cached_results(store, Val(obs'.cache_key), obs'.api, now).ret = Null
           /\ EventsOf(obs'.events, {"request"}) # {}
           /\ key \in DOMAIN store' => ~ReadFails(store'[key].value) ]_vars

(***************************************************************************)
(* C21: every search that makes a live fetch and obtains a nonempty batch  *)
(* replaces the cache entry of its key by the newly fetched batch with a   *)
(* fresh timestamp (also with use_cache false while a valid entry          *)
(* exists), so that a lookup made at once for the same query and filters   *)
(* is answered from the new batch.                                         *)
(***************************************************************************)
\* the search sent a request and returned records
FetchedSome(o) ==
    /\ o.op = "search"
    /\ EventsOf(o.events, {"request"}) # {}
    /\ ~o.ret.exc
    /\ o.ret.val # <<>>

C21_Overwritten ==
    FetchedSome(obs) =>
        LET key == get_cache_key(Val(obs.cache_key), obs.api) IN
        /\ key \in DOMAIN store
        /\ store[key].value.timestamp = now
        /\ \A i \in 1..Len(obs.ret.val) :
              Without(obs.ret.val[i], {"impact_score"}) \in Range(store[key].value.results)
        /\ Len(obs.ret.val) = Min(obs.limit, Len(store[key].value.results))
        /\ Lookup(Val(obs.cache_key), obs.api) = Some(store[key].value.results)

\* the second search of a caller, made with use_cache false less than a day
\* after the first, has written the entry anew
C21_Witness ==
    /\ FetchedSome(obs)
    /\ ~obs.use_cache
    /\ ops = 2
    /\ now < CACHE_EXPIRE_SECONDS
    /\ EventsOf(obs.events, {"cache_results"}) # {}
    /\ EntryOf(Val(obs.cache_key), obs.api).timestamp = now

(***************************************************************************)
(* paper_tracker.PaperTracker.  data holds the papers by paper id and the  *)
(* statistics; every operation that changes it ends with _save_data,       *)
(* which sets last_updated.  A paper record is a dict whose keys appear as *)
(* the paper moves on.                                                     *)
(***************************************************************************)
\* s.replace(a, b) for single characters
ReplaceChar(s, a, b) == [i \in 1..Len(s) |-> IF s[i] = a THEN b ELSE s[i]]

\* lines 74-91: _get_paper_id; the md5 digest of the fallback is taken to be
\* injective, so the hashed text stands for it
get_paper_id(paper) ==
    IF ~IsNull(DictGet(paper, "doi", Null)) /\ Val(paper.doi) # <<>>
    THEN <<"d","o","i","_">> \o ReplaceChar(Val(paper.doi), "/", "_")
    ELSE IF ~IsNull(DictGet(paper, "arxiv_id", Null)) /\ Val(paper.arxiv_id) # <<>>
    THEN <<"a","r","x","i","v","_">> \o Val(paper.arxiv_id)
    ELSE IF ~IsNull(DictGet(paper, "pmid", Null)) /\ Val(paper.pmid) # <<>>
    THEN <<"p","m","i","d","_">> \o Val(paper.pmid)
    ELSE LET title == DictGet(paper, "title", Some(<<"u","n","k","n","o","w","n">>))
             authors == DictGet(paper, "authors", <<<<"u","n","k","n","o","w","n">>>>)
             first_author == IF authors # <<>> THEN authors[1] ELSE <<"u","n","k","n","o","w","n">>
         IN  <<"h","a","s","h","_">> \o (IF IsNull(title) THEN <<"N","o","n","e">> ELSE Val(title)) \o <<"_">> \o first_author

\* lines 68-72: _save_data
save_data(d, t) == [d EXCEPT !.last_updated = t]

\* self.data["statistics"][counter] += 1
Counted(d, counter) == [d EXCEPT !.statistics[counter] = @ + 1]

\* self.data["papers"][paper_id] = record
WithPaper(d, paper_id, record) == [d EXCEPT !.papers = SetKey(d.papers, paper_id, record)]

\* lines 93-134: track_search_result: the data afterwards and the paper id
\* returned
track_search_result(d, paper, search_query, t) ==
    LET paper_id == get_paper_id(paper) IN
    IF paper_id \notin DOMAIN d.papers
    THEN LET record ==
                 [paper_id |-> paper_id,
                  status |-> "api_only",
                  api_metadata |->
                      [title |-> DictGet(paper, "title", Null),
                       authors |-> Take(DictGet(paper, "authors", <<>>), 5),
                       year |-> DictGet(paper, "year", Null),
                       journal |-> DictGet(paper, "journal", Null),
                       doi |-> DictGet(paper, "doi", Null),
                       arxiv_id |-> DictGet(paper, "arxiv_id", Null),
                       pmid |-> DictGet(paper, "pmid", Null),
                       citation_count |-> DictGet(paper, "citation_count", 0),
                       impact_score |-> DictGet(paper, "impact_score", 0)],
                  search_queries |-> <<search_query>>,
                  first_seen |-> t,
                  last_updated |-> t]
         IN  [data |-> save_data(Counted(WithPaper(d, paper_id, record), "total_searched"), t),
              ret |-> Ok(paper_id)]
    ELSE LET old == d.papers[paper_id]
             queries == IF \E i \in 1..Len(old.search_queries) : old.search_queries[i] = search_query
                        THEN old.search_queries
                        ELSE Append(old.search_queries, search_query)
             record == SetKey(SetKey(old, "search_queries", queries), "last_updated", t)
         IN  [data |-> save_data(WithPaper(d, paper_id, record), t), ret |-> Ok(paper_id)]

\* lines 136-159: request_pdf_review; ValueError for an unknown paper id
request_pdf_review(d, paper_id, t) ==
    IF paper_id \notin DOMAIN d.papers THEN [data |-> d, ret |-> Raise]
    ELSE LET paper == d.papers[paper_id] IN
         IF paper.status = "api_only"
         THEN LET record == SetKey(SetKey(SetKey(paper, "status", "pdf_requested"),
                                          "pdf_requested_date", t), "last_updated", t)
              IN  [data |-> save_data(Counted(WithPaper(d, paper_id, record), "pdfs_requested"), t),
                   ret |-> Ok(record)]
         ELSE [data |-> d, ret |-> Ok(paper)]

\* lines 161-206: record_pdf_reviewed.  The status is set to pdf_reviewed at
\* line 183, before line 203 compares it with pdf_reviewed to decide
\* whether to count the review.
record_pdf_reviewed(d, paper_id, review_notes, is_valuable, suggested_folder, suggested_filename, t) ==
    IF paper_id \notin DOMAIN d.papers THEN [data |-> d, ret |-> Raise]
    ELSE LET paper == d.papers[paper_id]
             reviewed == SetKey(SetKey(SetKey(paper, "status", "pdf_reviewed"),
                                       "pdf_reviewed_date", t),
                                "review", [notes |-> review_notes, is_valuable |-> is_valuable,
                                           reviewed_at |-> t])
             suggested == IF ~IsNull(suggested_folder) \/ ~IsNull(suggested_filename)
                          THEN SetKey(reviewed, "filing_suggestion",
                                      [folder |-> suggested_folder, filename |-> suggested_filename,
                                       suggested_at |-> t])
                          ELSE reviewed
             record == SetKey(suggested, "last_updated", t)
             stored == WithPaper(d, paper_id, record)
             counted == IF record.status # "pdf_reviewed" THEN Counted(stored, "pdfs_reviewed")
                        ELSE stored
         IN  [data |-> save_data(counted, t), ret |-> Ok(record)]

\* lines 208-230: mark_as_filed
mark_as_filed(d, paper_id, actual_path, t) ==
    IF paper_id \notin DOMAIN d.papers THEN [data |-> d, ret |-> Raise]
    ELSE LET paper == d.papers[paper_id]
             record == SetKey(SetKey(SetKey(SetKey(paper, "status", "filed"),
                                            "filed_at", actual_path),
                                     "filed_date", t), "last_updated", t)
         IN  [data |-> save_data(Counted(WithPaper(d, paper_id, record), "papers_filed"), t),
              ret |-> Ok(record)]

(***************************************************************************)
(* One PaperTracker at work: a caller tracks search results and moves      *)
(* papers through the review, in any order.                                *)
(***************************************************************************)
MaxTrackerOps == 4

PAPER_DOI ==
    [title |-> Some(<<"D","B","S">>), authors |-> <<<<"L","e","e">>>>, year |-> Some(2023),
     doi |-> Some(<<"1","0",".","1","/","x">>)]
PAPER_PLAIN == [title |-> Some(<<"R","N","S">>), authors |-> <<<<"K","i","m">>>>, year |-> Some(2021)]
TrackedPapers == {PAPER_DOI, PAPER_PLAIN}
TrackerQueries == {<<"d","b","s">>, <<"r","n","s">>}

\* the ids a caller passes: those of the two papers and one never tracked
PaperIds == {get_paper_id(PAPER_DOI), get_paper_id(PAPER_PLAIN), <<"p","m","i","d","_","0">>}
Suggestions == {Null, Some(<<"l","i","t">>)}

\* the operation has returned (or raised)
Tracked(op, args, out) ==
    /\ ops < MaxTrackerOps
    /\ data' = out.data
    /\ obs' = [op |-> op, args |-> args, ret |-> out.ret]
    /\ ops' = ops + 1
    /\ UNCHANGED <<now, last_api_call, store, nticks>>
    /\ UNCHANGED rl_vars

PaperTracker_track_search_result ==
    \E paper \in TrackedPapers, search_query \in TrackerQueries :
        Tracked("track_search_result", <<paper, search_query>>,
                track_search_result(data, paper, search_query, now))

PaperTracker_request_pdf_review ==
    \E paper_id \in PaperIds :
        Tracked("request_pdf_review", <<paper_id>>, request_pdf_review(data, paper_id, now))

PaperTracker_record_pdf_reviewed ==
    \E paper_id \in PaperIds, is_valuable \in BOOLEAN, suggested \in Suggestions :
        Tracked("record_pdf_reviewed", <<paper_id, is_valuable, suggested>>,
                record_pdf_reviewed(data, paper_id, <<"n","o","t","e","s">>, is_valuable, suggested, suggested, now))

PaperTracker_mark_as_filed ==
    \E paper_id \in PaperIds :
        Tracked("mark_as_filed", <<paper_id>>, mark_as_filed(data, paper_id, <<"l","i","t","/","a",".","p","d","f">>, now))

TrackerNext ==
    \/ PaperTracker_track_search_result
    \/ PaperTracker_request_pdf_review
    \/ PaperTracker_record_pdf_reviewed
    \/ PaperTracker_mark_as_filed

SpecTracker == Init /\ [][TrackerNext]_vars

\* the place of a status in the progression of the module docstring
StageOf(status) ==
    CASE status = "api_only" -> 1
      [] status = "pdf_requested" -> 2
      [] status = "pdf_reviewed" -> 3
      [] status = "filed" -> 4

\* C22: under any sequence of PaperTracker operations a paper's status only
\* moves forward along api_only, pdf_requested, pdf_reviewed, filed: it
\* never returns to an earlier status and never skips a stage.
C22_StatusForward ==
    [][ /\ \A id \in DOMAIN data'.papers \ DOMAIN data.papers :
              data'.papers[id].status = "api_only"
        /\ \A id \in DOMAIN data.papers :
              /\ id \in DOMAIN data'.papers
              /\ StageOf(data'.papers[id].status) - StageOf(data.papers[id].status) \in {0, 1} ]_vars

\* the papers that record_pdf_reviewed has reviewed at least once: only it
\* gives a paper its review, and nothing takes the review away
ReviewedOnce == {id \in DOMAIN data.papers : "review" \in DOMAIN data.papers[id]}

\* C27: statistics.pdfs_reviewed counts each reviewed paper once: after any
\* sequence of operations it equals the number of papers that have been
\* reviewed at least once.
C27_ReviewedCount ==
    data.statistics.pdfs_reviewed = Cardinality(ReviewedOnce)

(***************************************************************************)
(* C23: in sequential execution every remote request of an adapter is      *)
(* preceded by its own rate_limit_request for that source, so that two     *)
(* consecutive requests to one source, within a search or across           *)
(* searches, start at least RATE_LIMIT_SECONDS apart.                      *)
(***************************************************************************)
\* rate_limit_request was called for the source between the request before
\* event i (or the start of the search) and event i
OwnRateLimit(events, i) ==
    \E k \in 1..(i - 1) :
        /\ events[k].ev = "rate_limit_request"
        /\ events[k].api = events[i].api
        /\ \A j \in (k + 1)..(i - 1) : events[j].ev # "request"

C23_RequestsApart ==
    [][ SearchStep =>
          LET events == obs'.events
              requests == EventsOf(events, {"request"})
          IN  /\ \A i \in requests : OwnRateLimit(events, i)
              /\ \A i, j \in requests :
                    i < j => events[j].at - events[i].at >= RATE_LIMIT_SECONDS
              /\ \A i \in requests :
                    obs'.api \in DOMAIN last_api_call
                        => events[i].at - last_api_call[obs'.api] >= RATE_LIMIT_SECONDS ]_vars

(***************************************************************************)
(* C24: in a PubMed search that misses the cache the detail fetch (efetch) *)
(* is issued only after the ID search (esearch) has returned a nonempty    *)
(* list of PMIDs; when the ID search fails or returns no IDs, no detail    *)
(* fetch is issued and the search returns an empty list.                   *)
(***************************************************************************)
\* the requests a search sent to one endpoint
RequestsTo(events, endpoint) ==
    {i \in EventsOf(events, {"request"}) : events[i].endpoint = endpoint}

\* the ID search at event j answered with a nonempty list of PMIDs
FoundPmids(events, j) ==
    IsOk(events[j].response) /\ events[j].response.body # <<>>

C24_TwoPhase ==
    (obs.op = "search" /\ obs.api = PUBMED) =>
        LET events == obs.events
            esearch == RequestsTo(events, "esearch")
            efetch == RequestsTo(events, "efetch")
        IN  /\ \A i \in efetch :
                  \E j \in esearch :
                      /\ j < i
                      /\ FoundPmids(events, j)
                      /\ events[i].params.id = events[j].response.body
            /\ (\E j \in esearch : ~FoundPmids(events, j))
                  => (efetch = {} /\ obs.ret = Ok(<<>>))

\* both phases ran and the search returned a record
C24_Witness ==
    /\ obs.op = "search"
    /\ obs.api = PUBMED
    /\ RequestsTo(obs.events, "esearch") # {}
    /\ RequestsTo(obs.events, "efetch") # {}
    /\ ~obs.ret.exc
    /\ obs.ret.val # <<>>

(***************************************************************************)
(* Single calls of NSFAwardsSearch._search_awards against servers that     *)
(* answer every page the loop asks for.                                    *)
(***************************************************************************)
\* the number of offsets 1, 26, 51, ... that are not above MAX_RESULTS
NSF_MAX_PAGES == ((NSF_MAX_RESULTS - 1) \div NSF_MAX_LIMIT) + 1

NSF_UNPARSABLE_PAGE == [i \in 1..NSF_MAX_LIMIT |-> NSF_NON_DICT]
NSF_LONG_PAGE == [i \in 1..(NSF_MAX_LIMIT + 1) |-> NSF_PLAIN]

\* a server answers its first pages one by one and every later page alike
NSFFirstPages == {<<>>, <<Body(NSF_FULL_PAGE)>>, <<Body(NSF_UNPARSABLE_PAGE)>>}
NSFLaterPages ==
    {Body(NSF_FULL_PAGE), Body(NSF_UNPARSABLE_PAGE), Body(NSF_LONG_PAGE), Body(<<>>),
     Body(<<NSF_GOOD>>), TIMEOUT, HttpStatus(500), MALFORMED}
NSFServers == {[first |-> f, later |-> l] : f \in NSFFirstPages, l \in NSFLaterPages}

\* the answers of a server to one page more than the loop may ask for
ServedBy(server) ==
    [i \in 1..(NSF_MAX_PAGES + 1) |->
        IF i <= Len(server.first) THEN server.first[i] ELSE server.later]

AwardLimits == {1, NSF_MAX_LIMIT, NSF_MAX_LIMIT + 1, 60, NSF_MAX_RESULTS + NSF_MAX_LIMIT}

Call_nsf_search_awards ==
    \E limit \in AwardLimits, server \in NSFServers :
        LET out == nsf_search_awards(Context(<<>>, <<>>, now), <<"d","b","s">>, limit, Null,
                                     ServedBy(server))
        IN  Called("nsf_search_awards", <<limit, server>>,
                   [papers |-> out.papers, starved |-> out.starved,
                    requests |-> SelectSeq(out.ctx.events, LAMBDA e : e.ev = "request")])

\* single calls of _search_awards only
PagesNext == Call_nsf_search_awards

SpecPages == Init /\ [][PagesNext]_vars

\* the awards parsed from the k-th page
ParsedFrom(requests, k) ==
    IF IsOk(requests[k].response)
    THEN Len(Parsed(requests[k].response.body, nsf_parse_award)) ELSE 0

\* the awards collected from the pages lo..hi
RECURSIVE Collected(_, _, _)
Collected(requests, lo, hi) ==
    IF lo > hi THEN 0
    ELSE IF lo = hi THEN ParsedFrom(requests, lo)
    ELSE LET mid == (lo + hi) \div 2 IN
         Collected(requests, lo, mid) + Collected(requests, mid + 1, hi)

\* after the k-th page the loop of _search_awards ends
LastPage(requests, k, limit) ==
    \/ ~IsOk(requests[k].response)
    \/ requests[k].response.body = <<>>
    \/ Len(requests[k].response.body) < NSF_MAX_LIMIT
    \/ Collected(requests, 1, k) >= limit
    \/ requests[k].params.offset + NSF_MAX_LIMIT > NSF_MAX_RESULTS

(***************************************************************************)
(* C25: _search_awards terminates whatever the server answers: it asks for *)
(* pages of at most 25 awards at offsets 1, 26, 51, ..., never with an     *)
(* offset above 3000, and stops as soon as enough awards are collected, a  *)
(* page is empty or shorter than 25, or a request fails.                   *)
(***************************************************************************)
C25_Paginates ==
    obs.op = "nsf_search_awards" =>
        LET requests == obs.ret.requests
            limit == obs.args[1]
        IN  /\ ~obs.ret.starved
            /\ Len(requests) \in 1..NSF_MAX_PAGES
            /\ \A k \in 1..Len(requests) :
                  /\ requests[k].params.offset = 1 + NSF_MAX_LIMIT * (k - 1)
                  /\ requests[k].params.offset <= NSF_MAX_RESULTS
                  /\ requests[k].params.rpp \in 1..NSF_MAX_LIMIT
                  /\ (k = Len(requests)) <=> LastPage(requests, k, limit)

\* a server that never lets the loop end before the cap: the last request
\* is the one at the highest offset below 3000
C25_Witness ==
    /\ obs.op = "nsf_search_awards"
    /\ Len(obs.ret.requests) = NSF_MAX_PAGES
    /\ obs.ret.requests[NSF_MAX_PAGES].params.offset = 2976
    /\ Len(obs.ret.papers) < obs.args[1]
    /\ ~obs.ret.starved

(***************************************************************************)
(* C26: entries of different sources never collide: caching results under  *)
(* (q1, s1) leaves what a lookup under (q2, s2) returns unchanged for      *)
(* every q2 and every source s2 other than s1, while queries that differ   *)
(* only in letter case or surrounding whitespace address one entry of a    *)
(* source.                                                                 *)
(***************************************************************************)
\* the text i..j of q1 and the text k..l of q2 are equal up to letter case,
\* and all around them is whitespace
SameCore(q1, i, j, q2, k, l) ==
    /\ j - i = l - k
    /\ \A n \in 0..(j - i) : LowerChar(q1[i + n]) = LowerChar(q2[k + n])
    /\ \A n \in (1..(i - 1)) \cup ((j + 1)..Len(q1)) : q1[n] \in Whitespace
    /\ \A n \in (1..(k - 1)) \cup ((l + 1)..Len(q2)) : q2[n] \in Whitespace

DifferInCaseOrPadding(q1, q2) ==
    \E i, j \in 1..Len(q1), k, l \in 1..Len(q2) : SameCore(q1, i, j, q2, k, l)

C26_NoCollision ==
    [][ (obs'.op = "put" /\ ops' = ops + 1) =>
          /\ \A q \in CacheQueries, s \in CacheSources \ {obs'.source} :
                get_cached_results(store', q, s, now').ret
                    = get_cached_results(store, q, s, now).ret
          /\ \A q \in CacheQueries :
                DifferInCaseOrPadding(q, obs'.query)
                    => get_cached_results(store', q, obs'.source, now').ret = Some(obs'.results) ]_vars

\* the same query is cached under both sources with different results, the
\* later under a variant of the query in other case and padding
C26_Witness ==
    /\ obs.op = "put"
    /\ obs.query = Q_DBS_VARIANT
    /\ obs.source = PUBMED
    /\ obs.time = now
    /\ HasEntry(Q_DBS, ARXIV)
    /\ Lookup(Q_DBS, ARXIV) # Null
    /\ Lookup(Q_DBS, ARXIV) # Lookup(Q_DBS, PUBMED)
    /\ Lookup(Q_DBS, PUBMED) = Some(obs.results)

(***************************************************************************)
(* C28: a search answered from the cache returns the same records in the   *)
(* same order, the impact_score field aside, as the search that missed the *)
(* cache and populated the entry, for the same query, filters and limit.   *)
(* Stated of the state the populating search leaves: the search that       *)
(* follows with the same arguments reads the entry just written and        *)
(* returns hit_result of it.                                               *)
(***************************************************************************)
\* the search fetched a batch and cached it
Populated(o) == FetchedSome(o) /\ EventsOf(o.events, {"cache_results"}) # {}

\* the records without the score the ranking attaches
Unscored(records) == [i \in 1..Len(records) |-> Without(records[i], {"impact_score"})]

C28_HitAsMiss ==
    Populated(obs) =>
        LET cached == Lookup(Val(obs.cache_key), obs.api) IN
        /\ ~IsNull(cached)
        /\ Unscored(hit_result(Val(cached), obs.limit)) = Unscored(obs.ret.val)

(***************************************************************************)
(* C29: with the default KEYWORD_WEIGHTS, score_paper never returns a      *)
(* score above 71: the caps of the categories (weight x 5) sum to 285 of   *)
(* the 400 points the score is normalized by, the clamp to 100 is never    *)
(* active, and only the scores 70 and 71 meet the threshold of 70 at which *)
(* the screener keeps a paper.                                             *)
(***************************************************************************)
\* arxiv_pdf_screener.py line 236: keep = paper['relevance_score'] >= 70
KEEP_THRESHOLD == 70
Keeps(relevance_score) == relevance_score >= KEEP_THRESHOLD

\* the sum of the caps weight * 5 over the categories
CapTotal == SumSeq([c \in 1..Len(KEYWORD_WEIGHTS) |-> KEYWORD_WEIGHTS[c].weight * 5])

C29_Kept70 ==
    /\ obs.op = "score_paper"
    /\ ~obs.ret.exc
    /\ obs.ret.val.score = 70

(***************************************************************************)
(* C30: in detect_fields a keyword that matches the query at word level    *)
(* also matches it as a substring, so the 0.8 branch never contributes:    *)
(* the match count of a field is the whole number of its keywords that     *)
(* occur in the lowercased query, and the raw score of the field is        *)
(* (that count / number of keywords) x weight.                             *)
(***************************************************************************)
\* line 101: the query the keywords are matched against
QueryLowerOf(query) == Lower(Val(sanitize_query(query)))

\* line 102: set(query_lower.split())
QueryWordsOf(query) ==
    LET words == Split(QueryLowerOf(query)) IN {words[i] : i \in 1..Len(words)}

\* the keywords of a field that occur in the query as substrings
SubstringMatches(field, query_lower) ==
    {k \in 1..Len(field.keywords) : Contains(query_lower, Lower(field.keywords[k]))}

\* the keywords of a field that are words of the query
WordMatches(field, query_words) ==
    {k \in 1..Len(field.keywords) :
        /\ Len(Split(Lower(field.keywords[k]))) = 1
        /\ Lower(field.keywords[k]) \in query_words}

\* detect_fields went past the sanitization of the query
Matched(o) ==
    /\ o.op = "detect_fields"
    /\ ~IsNull(sanitize_query(o.args[2]))
    /\ Val(sanitize_query(o.args[2])) # <<>>

C30_WholeMatches ==
    Matched(obs) =>
        LET fields == obs.args[1].fields
            query_lower == QueryLowerOf(obs.args[2])
            query_words == QueryWordsOf(obs.args[2])
            field_scores == field_scores_of(fields, query_lower, query_words)
        IN  \A i \in 1..Len(fields) :
                LET count == Cardinality(SubstringMatches(fields[i], query_lower)) IN
                /\ WordMatches(fields[i], query_words) \subseteq SubstringMatches(fields[i], query_lower)
                /\ field_matches(fields[i].keywords, 1, query_lower, query_words) = 10 * count
                /\ count > 0 =>
                      \E j \in 1..Len(field_scores) :
                          /\ field_scores[j].field = fields[i].name
                          /\ field_scores[j].score
                                 = Frac(count * fields[i].weight, 10 * Len(fields[i].keywords))
                          /\ obs.ret.keywords_matched[j].field = fields[i].name
                          /\ Len(obs.ret.keywords_matched[j].keywords) = count
                /\ count = 0 =>
                      \A j \in 1..Len(obs.ret.keywords_matched) :
                          obs.ret.keywords_matched[j].field # fields[i].name

\* a one-word keyword is a word of the query, and a keyword of several
\* words occurs in it too
C30_Witness ==
    /\ Matched(obs)
    /\ \E i \in 1..Len(obs.args[1].fields) :
          LET field == obs.args[1].fields[i] IN
          /\ WordMatches(field, QueryWordsOf(obs.args[2])) # {}
          /\ SubstringMatches(field, QueryLowerOf(obs.args[2]))
                 # WordMatches(field, QueryWordsOf(obs.args[2]))
          /\ \E j \in 1..Len(obs.ret.keywords_matched) :
                 obs.ret.keywords_matched[j].field = field.name

UnitNext ==
    \/ Call_sanitize_query
    \/ Call_classify
    \/ Call_score_paper
    \/ Call_detect_fields
    \/ Call_validate_paper_data

SpecUnits == Init /\ [][UnitNext]_vars

====
